---- MODULE Spec2Model ----
(***************************************************************************)
(* A model of the delay-coupled simulation kernel of draculab:             *)
(* network.py (create, connect, set_plant_inputs, set_plant_outputs, run), *)
(* units.py (unit, source and the buffered unit classes) and               *)
(* plants/plants.py (plant).                                               *)
(*                                                                         *)
(* Conventions.                                                            *)
(*  - Times are integers: one min_delay is min_delay time units, chosen so *)
(*    that every np.linspace grid of the bounded model is integral.        *)
(*  - Activation values are fixed-point integers (value * ValScale).       *)
(*  - A Python call that raises leaves the mutations it made before the    *)
(*    raise; the caller may catch the exception and go on using the        *)
(*    network.  Every operation is an operator from a network record to a  *)
(*    network record whose field err names the exception ("ok" when the    *)
(*    call returned).                                                      *)
(***************************************************************************)
EXTENDS Integers, Sequences, FiniteSets, TLC

VARIABLES
    sim_time,   \* network.sim_time
    n_units,    \* network.n_units
    units,      \* network.units: sequence of unit records (index ID+1)
    n_plants,   \* network.n_plants
    plants,     \* network.plants
    delays,     \* network.delays[i][j]
    act,        \* network.act[i][j]: the read-accessor of the j-th input of unit i
    syns,       \* network.syns[i][j]
    err,        \* exception raised by the last call, "ok" if it returned
    op,         \* the last call: its name and the arguments the claims refer to
    raised,     \* the exceptions the wiring calls made so far have raised
    log,        \* the steps of every tick of the last run call, in execution order
    out_times,  \* the `times` array of the last run call
    syn_dict    \* the syn_spec dictionaries the caller holds on to between calls

vars == <<sim_time, n_units, units, n_plants, plants, delays, act, syns,
          err, op, raised, log, out_times, syn_dict>>

-----------------------------------------------------------------------------
(* Bounds of the model *)

MaxUnits == 3
MaxPlants == 1
MaxSyn == 4
MaxWire == 2
MaxPlantInputs == 1
MaxTicks == 2
MaxPorts == 2

(* Network parameters and numeric stand-ins *)

min_delay == 6930
min_buff_size == 2
ValScale == 10
ValMod == 40

HalfDelay == min_delay \div 2

-----------------------------------------------------------------------------
(* Generic helpers *)

Min(a, b) == IF a <= b THEN a ELSE b
Max(a, b) == IF a >= b THEN a ELSE b

RECURSIVE SeqSum(_)
SeqSum(s) == IF s = <<>> THEN 0 ELSE Head(s) + SeqSum(Tail(s))

Range(s) == {s[i] : i \in 1..Len(s)}

\* Python 3 round(): round half to even, for a >= 0, b > 0, of the quotient a/b
PyRound(a, b) ==
    LET q == a \div b
        r == a % b
    IN  IF 2 * r < b THEN q
        ELSE IF 2 * r > b THEN q + 1
        ELSE IF q % 2 = 0 THEN q ELSE q + 1

\* np.linspace(lo, hi, n)
linspace(lo, hi, n) ==
    IF n = 1 THEN <<lo>>
    ELSE [k \in 1..n |-> lo + ((k - 1) * (hi - lo)) \div (n - 1)]

\* np.roll(s, -k) followed by s[offset:] = new
RollIn(s, k, offset, new) ==
    [i \in 1..Len(s) |->
        IF i > offset /\ i - offset <= Len(new) THEN new[i - offset]
        ELSE s[((i - 1 + k) % Len(s)) + 1]]

Ok == "ok"

\* The forms of a weight or delay entry: a Python number, a dictionary naming
\* the uniform distribution, and a numpy scalar
Scalar(d) == [kind |-> "scalar", value |-> d, low |-> 0, high |-> 0]

Uniform(low, high) == [kind |-> "uniform", value |-> 0, low |-> low, high |-> high]

Float64(d) == [kind |-> "float64", value |-> d, low |-> 0, high |-> 0]

\* The value of Op at v, with v computed once
With(v, Op(_)) == CHOOSE r \in {Op(w) : w \in {v}} : TRUE

\* The first error of a sequence of outcomes ("ok" when none failed)
RECURSIVE FirstErr(_)
FirstErr(s) ==
    IF s = <<>> THEN Ok
    ELSE IF Head(s) # Ok THEN Head(s) ELSE FirstErr(Tail(s))

\* All orderings of a finite set, as sequences without repetition
Perms(S) ==
    {p \in [1..Cardinality(S) -> S] : \A i, j \in 1..Cardinality(S) : p[i] = p[j] => i = j}

\* The sequences obtained by inserting the elements of S, in any order and at
\* any position, into the sequence s (whose own order is kept)
Insertions(s, S) ==
    {p \in Perms(Range(s) \cup S) :
        \A i, j \in 1..Len(s) : i < j =>
            \E a, b \in 1..Len(p) : a < b /\ p[a] = s[i] /\ p[b] = s[j]}

-----------------------------------------------------------------------------
(* units.py: the unit class and its buffers *)

\* The requirement tags of syn_reqs that the model covers, and the updater
\* each one registers in unit.functions
pre_reqs == {"pre_lpf_fast", "pre_lpf_mid"}

UpdaterOf(req) ==
    CASE req = "lpf_fast" -> "upd_lpf_fast"
      [] req = "lpf_mid" -> "upd_lpf_mid"
      [] req = "inp_vector" -> "upd_inp_vector"
      [] req = "inp_avg" -> "upd_inp_avg"
      [] req = "lpf_mid_inp_sum" -> "upd_lpf_mid_inp_sum"
      [] req = "balance" -> "upd_balance"
      [] req = "exp_scale" -> "upd_exp_scale"
      [] req = "slide_thresh" -> "upd_thresh"
      [] OTHER -> "none"

times_grid == linspace(0, min_delay, min_buff_size + 1)

\* init_buffers with an activation buffer of zeros
init_buffersZeros(u) ==
    LET steps == PyRound(u.delay, min_delay)
        times == linspace(0 - u.delay, 0, steps * min_buff_size)
    IN  [u EXCEPT !.steps = steps,
                  !.buffer = [k \in 1..(steps * min_buff_size) |-> 0],
                  !.times = times,
                  !.time_bit = times[2] - times[1]]

\* unit.init_buffers, past its assertion sim_time == 0 (InitBuffersErr).
\* An attribute the code does not assign keeps its earlier value or absence.
init_buffers(u) ==
    LET steps == PyRound(u.delay, min_delay)
        lp(req, buff, old) == IF req \in u.syn_needs
                              THEN [k \in 1..steps |-> u.init_val] ELSE old
        hp(req, buff) == IF req \in u.syn_needs THEN {buff} ELSE {}
        u1 == [u EXCEPT
                 !.steps = steps,
                 !.lpf_fast_buff = lp("lpf_fast", "lpf_fast_buff", @),
                 !.lpf_mid_buff = lp("lpf_mid", "lpf_mid_buff", @),
                 !.lpf_mid_inp_sum_buff = lp("lpf_mid_inp_sum", "lpf_mid_inp_sum_buff", @),
                 !.has = @ \cup hp("lpf_fast", "lpf_fast_buff")
                           \cup hp("lpf_mid", "lpf_mid_buff")
                           \cup hp("lpf_mid_inp_sum", "lpf_mid_inp_sum_buff")]
        buff_size == steps * min_buff_size
        times == linspace(0 - u.delay, 0, buff_size)
    IN  IF u.type = "source" THEN u1
        ELSE [u1 EXCEPT
                 !.buffer = [k \in 1..buff_size |-> u.init_val],
                 !.times = times,
                 !.time_bit = times[2] - times[1]]

InitBuffersErr(st) == IF st = 0 THEN Ok ELSE "AssertionError:init_buffers"

offset(u) == (u.steps - 1) * min_buff_size
buff_size(u) == u.steps * min_buff_size

\* The requirement tags a unit class adds to syn_needs in its constructor
ClassNeeds(type) ==
    IF type = "exp_dist_sigmoidal"
    THEN {"balance", "exp_scale", "lpf_fast", "inp_vector"}
    ELSE {}

\* The attributes a unit class constructor sets from its parameters
ClassAttrs(type) ==
    IF type = "exp_dist_sigmoidal"
    THEN {"slope", "thresh", "tau_scale", "Kp", "c"}
    ELSE {}

\* The unit classes whose constructor sets multi_port
ClassMultiPort(type) == type = "mp_linear"

\* unit.__init__ followed by the subclass constructor.  params.keys holds the
\* optional entries of the parameter dictionary that are given.
NewUnit(ID, params) ==
    LET u0 == [ID |-> ID,
               type |-> params.type,
               init_val |-> params.init_val,
               delay |-> IF "delay" \in params.keys THEN params.delay
                         ELSE 2 * min_delay,
               has |-> params.keys \cap {"tau_fast", "tau_mid"},
               syn_needs |-> {},
               last_time |-> 0,
               steps |-> 0, buffer |-> <<>>, times |-> <<>>, time_bit |-> 0,
               lpf_fast |-> 0, lpf_fast_buff |-> <<>>,
               lpf_mid |-> 0, lpf_mid_buff |-> <<>>,
               lpf_mid_inp_sum |-> 0, lpf_mid_inp_sum_buff |-> <<>>,
               inp_vector |-> <<>>, inp_avg |-> 0, snorm_list_dels |-> <<>>,
               below |-> 0, above |-> 0, scale_facs |-> <<>>,
               exc_idx |-> {}, inh_idx |-> {},
               functions |-> <<>>,
               pre_syn_update |-> "none",
               n_ports |-> IF "n_ports" \in params.keys THEN params.n_ports ELSE 1,
               multi_port |-> FALSE,
               port_idx |-> <<>>,
               function |-> params.function]
        u1 == init_buffers(u0)
    IN  [u1 EXCEPT !.syn_needs = ClassNeeds(params.type),
                   !.multi_port = ClassMultiPort(params.type),
                   !.has = @ \cup ClassAttrs(params.type)]

\* unit.get_act: the divmod lookup of the third implementation, which the
\* cython routine repeats.  time_bit exceeds the grid step by 1e-9, so an exact
\* positive multiple of the step falls at the end of the interval before it.
get_act(u, time) ==
    LET x == time - u.times[1]
        s == u.time_bit
        exact == x > 0 /\ x % s = 0
        base0 == IF exact THEN (x \div s) - 1 ELSE x \div s
        rem == IF exact THEN s ELSE x % s
        base == Max(0, Min(base0, buff_size(u) - 2))
    IN  u.buffer[base + 1]
          + (rem * (u.buffer[base + 2] - u.buffer[base + 1])) \div s

\* The functions a source unit can be given; function 0 is the null function
\* `lambda x: None` that every new source unit starts with
SourceFun(f, t) ==
    CASE f = 1 -> ValScale
      [] f = 2 -> (t \div HalfDelay) % ValMod
      [] OTHER -> 0

-----------------------------------------------------------------------------
(* plants/plants.py: the plant class (with the conn_tester model) *)

PlantDim == 3
PlantInpDim == 3

\* plant.init_buffers past its assertion; conn_tester sets init_state and the
\* buffer right after the parent constructor, so the buffer is always filled
plant_init_buffers(p) ==
    LET steps == PyRound(p.delay, min_delay)
        buff_width == steps * min_buff_size
    IN  [p EXCEPT !.steps = steps,
                  !.buffer = [k \in 1..buff_width |-> p.init_state],
                  !.times = linspace(0 - p.delay, 0, buff_width)]

\* plant.__init__ and conn_tester.__init__
NewPlant(params) ==
    plant_init_buffers(
        [type |-> params.type, dim |-> PlantDim, inp_dim |-> PlantInpDim,
         delay |-> 2 * min_delay, steps |-> 0,
         init_state |-> params.init_state,
         buffer |-> <<>>, times |-> <<>>,
         inputs |-> [k \in 1..PlantInpDim |-> <<>>],
         inp_dels |-> [k \in 1..PlantInpDim |-> <<>>],
         inp_syns |-> [k \in 1..PlantInpDim |-> <<>>]])

\* interp1d(times, column idx of buffer, kind='linear', fill_value="extrapolate")(t)
get_state_var(p, t, idx) ==
    LET n == Len(p.times)
        below == {i \in 1..(n - 1) : p.times[i] <= t}
        i == IF below = {} THEN 1 ELSE CHOOSE k \in below : \A j \in below : j <= k
        v0 == p.buffer[i][idx + 1]
        v1 == p.buffer[i + 1][idx + 1]
    IN  v0 + ((t - p.times[i]) * (v1 - v0)) \div (p.times[i + 1] - p.times[i])

-----------------------------------------------------------------------------
(* The network record: the fields of a network object, passed to the operators
   that model its methods.  A method's outcome is a record [net, err]. *)

Net ==
    [sim_time |-> sim_time, n_units |-> n_units, units |-> units,
     n_plants |-> n_plants, plants |-> plants,
     delays |-> delays, act |-> act, syns |-> syns]

Outcome(N, e) == [net |-> N, err |-> e]

\* network.create_units.  n_units and the three tables grow after the loop
\* that builds the units.  A source unit starts with the null function:
\* create_units names it for the constructor, and the constructor reads it
\* from the entry 'function' of params, where the callers put it.
\* The loop `for ID in unit_list`: params_copy takes the ID's element of a
\* parameter given as a list, and every unit built is appended at once
RECURSIVE AppendUnits(_, _, _, _)
AppendUnits(N, n, params, k) ==
    IF k > n THEN Outcome(N, Ok)
    ELSE LET ID == N.n_units + k - 1
             params_copy == [params EXCEPT
                               !.delay = IF "delay" \in params.listed
                                         THEN params.delay_list[k] ELSE @]
         IN  IF "delay" \in params.keys /\ params_copy.delay % min_delay # 0
             THEN Outcome(N, "AssertionError:delay")
             ELSE AppendUnits([N EXCEPT !.units = Append(@, NewUnit(ID, params_copy))],
                              n, params, k + 1)

create_units(N, n, params) ==
    IF n <= 0 \/ N.sim_time # 0
    THEN Outcome(N, "AssertionError:create_units")
    ELSE IF "delay" \in params.listed /\ Len(params.delay_list) # n
    THEN Outcome(N, "ValueError:listed")
    ELSE With(AppendUnits(N, n, params, 1),
              LAMBDA a :
                IF a.err # Ok THEN a
                ELSE LET empty == [k \in 1..n |-> <<>>]
                     IN  Outcome([a.net EXCEPT !.n_units = @ + n,
                                              !.delays = @ \o empty,
                                              !.act = @ \o empty,
                                              !.syns = @ \o empty], Ok))

create_plant(N, n, params) ==
    IF N.sim_time # 0 THEN Outcome(N, "AssertionError:create_plant")
    ELSE IF n # 1 THEN Outcome(N, "ValueError:create_plant")
    ELSE Outcome([N EXCEPT !.plants = Append(@, NewPlant(params)),
                           !.n_plants = @ + 1], Ok)

-----------------------------------------------------------------------------
(* Synapses.  The synapse classes are not part of the sources at hand; what a
   class declares (upd_requirements) and what its update reads follow the
   uses units.py and network.py make of synapse objects. *)

upd_requirements(type) ==
    CASE type = "static" -> {}
      [] type = "oja" -> {"lpf_fast", "pre_lpf_fast"}
      [] type = "hebbsnorm" -> {"inp_avg", "lpf_fast", "pre_lpf_fast"}
      [] type = "exp_rate_dist" -> {"balance", "lpf_fast"}
      [] type = "scaled" -> {"inp_vector", "balance", "exp_scale"}
      [] OTHER -> {}

\* syn_class(syn_params, net): delay_steps is -1 until init_pre_syn_update
\* sets it, plant_out is -1 for a synapse that does not come from a plant
NewSynapse(type, preID, postID, w, port, plant_out) ==
    [type |-> type, preID |-> preID, postID |-> postID, w |-> w,
     inp_port |-> port, plant_out |-> plant_out, delay_steps |-> 0 - 1]

-----------------------------------------------------------------------------
(* network.connect: the connection list of each rule *)

\* random.sample(pool, k): k elements at distinct positions, in any order
Samples(pool, k) ==
    {[i \in 1..k |-> pool[q[i]]] :
        q \in {f \in [1..k -> 1..Len(pool)] : \A i, j \in 1..k : f[i] = f[j] => i = j}}

Without(pool, u) == SelectSeq(pool, LAMBDA y : y # u)

\* fixed_outdegree sampling from to_list itself, whatever allow_autapses says
RECURSIVE FanOutWithSelf(_, _, _)
FanOutWithSelf(from_list, to_list, conn_spec) ==
    IF from_list = <<>> THEN {<<>>}
    ELSE {[i \in 1..Len(t) |-> <<Head(from_list), t[i]>>] \o rest :
             t \in Samples(to_list, conn_spec.degree),
             rest \in FanOutWithSelf(Tail(from_list), to_list, conn_spec)}

RECURSIVE FanOut(_, _, _)
FanOut(from_list, to_list, conn_spec) ==
    IF from_list = <<>> THEN {<<>>}
    ELSE LET u == Head(from_list)
             pool == IF conn_spec.allow_autapses THEN to_list ELSE Without(to_list, u)
         IN  {[i \in 1..Len(t) |-> <<u, t[i]>>] \o rest :
                 t \in Samples(pool, conn_spec.degree),
                 rest \in FanOut(Tail(from_list), to_list, conn_spec)}

RECURSIVE FanIn(_, _, _)
FanIn(from_list, to_list, conn_spec) ==
    IF to_list = <<>> THEN {<<>>}
    ELSE LET u == Head(to_list)
             pool == IF conn_spec.allow_autapses THEN from_list ELSE Without(from_list, u)
         IN  {[i \in 1..Len(f) |-> <<f[i], u>>] \o rest :
                 f \in Samples(pool, conn_spec.degree),
                 rest \in FanIn(from_list, Tail(to_list), conn_spec)}

NoAutapses(conns, conn_spec) ==
    IF conn_spec.allow_autapses THEN conns
    ELSE SelectSeq(conns, LAMBDA c : c[1] # c[2])

\* The errors of the rules with the length test of one_to_one left out
RuleErrAnyLengths(from_list, to_list, conn_spec) ==
    LET short(pools) == \E pool \in pools : conn_spec.degree > Len(pool)
        pool(list, u) == IF conn_spec.allow_autapses THEN list ELSE Without(list, u)
    IN  CASE conn_spec.rule = "fixed_outdegree" ->
               IF short({pool(to_list, u) : u \in Range(from_list)})
               THEN "ValueError:sample" ELSE Ok
          [] conn_spec.rule = "fixed_indegree" ->
               IF short({pool(from_list, u) : u \in Range(to_list)})
               THEN "ValueError:sample" ELSE Ok
          [] conn_spec.rule \in {"all_to_all", "one_to_one"} -> Ok
          [] OTHER -> "ValueError:rule"

\* The error the rule raises: random.sample refuses a sample larger than its
\* population, one_to_one needs lists of equal length
RuleErr(from_list, to_list, conn_spec) ==
    LET short(pools) == \E pool \in pools : conn_spec.degree > Len(pool)
        pool(list, u) == IF conn_spec.allow_autapses THEN list ELSE Without(list, u)
    IN  CASE conn_spec.rule = "fixed_outdegree" ->
               IF short({pool(to_list, u) : u \in Range(from_list)})
               THEN "ValueError:sample" ELSE Ok
          [] conn_spec.rule = "fixed_indegree" ->
               IF short({pool(from_list, u) : u \in Range(to_list)})
               THEN "ValueError:sample" ELSE Ok
          [] conn_spec.rule = "all_to_all" -> Ok
          [] conn_spec.rule = "one_to_one" ->
               IF Len(to_list) # Len(from_list) THEN "ValueError:one_to_one" ELSE Ok
          [] OTHER -> "ValueError:rule"

\* The connection lists the rule can produce, as sequences of <<source, target>>
Connections(from_list, to_list, conn_spec) ==
    CASE conn_spec.rule = "fixed_outdegree" -> FanOut(from_list, to_list, conn_spec)
      [] conn_spec.rule = "fixed_indegree" -> FanIn(from_list, to_list, conn_spec)
      [] conn_spec.rule = "all_to_all" ->
           {NoAutapses([k \in 1..(Len(from_list) * Len(to_list)) |->
                           <<from_list[((k - 1) \div Len(to_list)) + 1],
                             to_list[((k - 1) % Len(to_list)) + 1]>>], conn_spec)}
      [] conn_spec.rule = "one_to_one" ->
           {NoAutapses([k \in 1..Len(from_list) |-> <<from_list[k], to_list[k]>>],
                       conn_spec)}
      [] OTHER -> {}

\* The delay of each connection.  A uniform distribution draws an integer
\* number of min_delay steps; a scalar is stored as given.
low_int(d) == Max(1, PyRound(d.low, min_delay))
high_int(d) == Max(1, PyRound(d.high, min_delay)) + 1

DelayErr(d) ==
    CASE d.kind = "uniform" -> IF low_int(d) >= high_int(d) THEN "ValueError:randint" ELSE Ok
      [] d.kind = "scalar" -> Ok
      [] OTHER -> "TypeError:delay"

Delayz(d, n_conns) ==
    CASE d.kind = "uniform" ->
           [1..n_conns -> {min_delay * k : k \in low_int(d)..(high_int(d) - 1)}]
      [] OTHER -> {[k \in 1..n_conns |-> d.value]}

-----------------------------------------------------------------------------
(* unit.init_pre_syn_update *)

SetUnit(N, uid, u) == [N EXCEPT !.units[uid + 1] = u]

\* The order in which ApplyInits walks the requirement tags; the assignments
\* of different tags touch different attributes, so the order is immaterial
ReqOrder ==
    <<"lpf_fast", "lpf_mid", "inp_vector", "inp_avg", "lpf_mid_inp_sum",
      "balance", "exp_scale", "slide_thresh">>

\* The exception the branch of `req` raises for unit u, "ok" if it raises none
ReqCheck(u, req) ==
    CASE req = "lpf_fast" ->
           IF "tau_fast" \in u.has THEN Ok ELSE "NameError:tau_fast"
      [] req = "lpf_mid" ->
           IF "tau_mid" \in u.has THEN Ok ELSE "NameError:tau_mid"
      [] req = "lpf_mid_inp_sum" ->
           IF "tau_mid" \notin u.has THEN "NameError:tau_mid"
           ELSE IF "inp_vector" \notin u.syn_needs THEN "AssertionError:inp_vector"
           ELSE Ok
      [] req = "balance" ->
           IF "inp_vector" \notin u.syn_needs THEN "AssertionError:inp_vector" ELSE Ok
      [] req \in {"exp_scale", "slide_thresh"} ->
           IF "balance" \notin u.syn_needs THEN "AssertionError:balance" ELSE Ok
      [] OTHER -> Ok

\* The assignments of the branch of `req` (its functions.add apart)
ReqInit(N, uid, u, req) ==
    LET syns_u == N.syns[uid + 1]
        n == Len(syns_u)
        hebb == SelectSeq(syns_u, LAMBDA y : y.type = "hebbsnorm")
    IN  CASE req = "lpf_fast" ->
               [u EXCEPT !.lpf_fast = u.init_val, !.has = @ \cup {"lpf_fast"}]
          [] req = "lpf_mid" ->
               [u EXCEPT !.lpf_mid = u.init_val, !.has = @ \cup {"lpf_mid"}]
          [] req = "inp_vector" ->
               [u EXCEPT !.inp_vector = [k \in 1..n |-> u.init_val],
                         !.has = @ \cup {"inp_vector"}]
          [] req = "inp_avg" ->
               [u EXCEPT !.snorm_list_dels =
                             [k \in 1..Len(hebb) |-> <<hebb[k].preID, hebb[k].delay_steps>>],
                         !.inp_avg = (2 * ValScale) \div 10,
                         !.has = @ \cup {"inp_avg"}]
          [] req = "lpf_mid_inp_sum" ->
               [u EXCEPT !.lpf_mid_inp_sum = u.init_val,
                         !.has = @ \cup {"lpf_mid_inp_sum"}]
          [] req = "balance" ->
               [u EXCEPT !.below = ValScale \div 2, !.above = ValScale \div 2,
                         !.has = @ \cup {"balance"}]
          [] req = "exp_scale" ->
               [u EXCEPT !.scale_facs = [k \in 1..n |-> 1],
                         !.exc_idx = {k \in 1..n : syns_u[k].w >= 0},
                         !.inh_idx = {k \in 1..n : syns_u[k].w < 0},
                         !.has = @ \cup {"scale_facs"}]
          [] OTHER -> u

RECURSIVE ApplyInits(_, _, _, _, _)
ApplyInits(N, uid, u, P, k) ==
    IF k > Len(ReqOrder) THEN u
    ELSE ApplyInits(N, uid,
                    IF ReqOrder[k] \in P THEN ReqInit(N, uid, u, ReqOrder[k]) ELSE u,
                    P, k + 1)

Updaters(P) == {UpdaterOf(r) : r \in P} \ {"none"}

\* `functions` kept as a list that every resolution appends to
ResolvedAppending(N, uid, u, P) ==
    {[ApplyInits(N, uid, u, P, 1) EXCEPT !.functions = u.functions \o fs] :
        fs \in Perms(Updaters(P))}

\* The unit after the branches of the tags in P ran; `functions` is a Python
\* set, so the place a new updater takes in its iteration order is open
Resolved(N, uid, u, P) ==
    {[ApplyInits(N, uid, u, P, 1) EXCEPT !.functions = fs] :
        fs \in Insertions(u.functions, Updaters(P) \ Range(u.functions))}

init_pre_syn_update(N, uid) ==
    LET u == N.units[uid + 1]
        n == Len(N.syns[uid + 1])
        bad == {j \in 1..n : N.syns[uid + 1][j].preID >= Len(N.units)}
        stop == IF bad = {} THEN n + 1 ELSE CHOOSE j \in bad : \A i \in bad : j <= i
        syns1 == [j \in 1..n |->
                    IF j < stop
                    THEN [N.syns[uid + 1][j] EXCEPT !.delay_steps =
                            Min(N.units[N.syns[uid + 1][j].preID + 1].steps - 1,
                                PyRound(N.delays[uid + 1][j], min_delay))]
                    ELSE N.syns[uid + 1][j]]
        N1 == [N EXCEPT !.syns[uid + 1] = syns1]
        incoming == UNION {upd_requirements(syns1[j].type) : j \in 1..n}
        sent == UNION {{upd_requirements(N1.syns[i][j].type) :
                          j \in {k \in 1..Len(N1.syns[i]) : N1.syns[i][k].preID = uid}} :
                       i \in 1..Len(N1.syns)}
        needs == ((u.syn_needs \cup incoming) \ pre_reqs)
                   \cup (IF \E r \in sent : "pre_lpf_fast" \in r THEN {"lpf_fast"} ELSE {})
                   \cup (IF \E r \in sent : "pre_lpf_mid" \in r THEN {"lpf_mid"} ELSE {})
        u1 == [u EXCEPT !.syn_needs = needs]
        Fail == {r \in needs : ReqCheck(u1, r) # Ok}
    IN  IF N.sim_time # 0
        THEN {Outcome(N, "AssertionError:init_pre_syn_update")}
        ELSE IF bad # {} THEN {Outcome(N1, "IndexError:units")}
        ELSE IF Fail = {}
        THEN {Outcome(SetUnit(N1, uid, [r EXCEPT !.pre_syn_update = "functions"]),
                      "NameError:multi_port") : r \in Resolved(N1, uid, u1, needs)}
        ELSE UNION {{Outcome(SetUnit(N1, uid, r), ReqCheck(u1, fp[1])) :
                        r \in Resolved(N1, uid, u1, fp[2])} :
                    fp \in Fail \X SUBSET (needs \ Fail)}

-----------------------------------------------------------------------------
(* network.connect *)

\* The accessor network.act keeps for an input: the bound get_act of a
\* buffered unit reads that unit's buffer when called, a source unit's get_act
\* is the function object it holds at this moment
ActOf(N, source) ==
    IF N.units[source + 1].type = "source"
    THEN [kind |-> "fun", id |-> source, f |-> N.units[source + 1].function]
    ELSE [kind |-> "unit", id |-> source, f |-> 0]

\* What a wiring call leaves: the network, the exception raised and the
\* syn_spec dictionary of the caller
Left(N, e, syn_spec) == [net |-> N, err |-> e, syn_spec |-> syn_spec]

\* The loop over the connections: act, syns and delays grow, and a source
\* whose delay does not exceed the new one gets a longer buffer.  syn_params
\* is the caller's dictionary itself, not a copy of it.
RECURSIVE Wire(_, _, _, _, _, _, _)
Wire(N, conns, weights, delayz, portz, syn_spec, idx) ==
    IF idx > Len(conns) THEN Left(N, Ok, syn_spec)
    ELSE LET source == conns[idx][1]
             target == conns[idx][2]
             syn_params == [syn_spec EXCEPT
                              !.keys = @ \cup {"preID", "postID", "inp_port"},
                              !.preID = source,
                              !.postID = target,
                              !.init_w = weights[idx],
                              !.inp_port = portz[idx]]
             N1 == [N EXCEPT
                      !.act[target + 1] = Append(@, ActOf(N, source)),
                      !.syns[target + 1] =
                          Append(@, NewSynapse(syn_params.type, source, target,
                                               weights[idx].value, portz[idx],
                                               IF "plant_out" \in syn_params.keys
                                               THEN syn_params.plant_out ELSE 0 - 1)),
                      !.delays[target + 1] = Append(@, delayz[idx])]
             su == N1.units[source + 1]
             longer == [su EXCEPT !.delay = delayz[idx] + min_delay]
         IN  IF su.delay <= delayz[idx]
             THEN IF InitBuffersErr(N.sim_time) # Ok
                  THEN Left(SetUnit(N1, source, longer), InitBuffersErr(N.sim_time),
                            syn_params)
                  ELSE Wire(SetUnit(N1, source, init_buffers(longer)),
                            conns, weights, delayz, portz, syn_params, idx + 1)
             ELSE Wire(N1, conns, weights, delayz, portz, syn_params, idx + 1)

\* The elements of a set of integers in ascending order: the order in which
\* CPython iterates over a set of small non-negative integers
RECURSIVE Ascending(_)
Ascending(S) ==
    IF S = {} THEN <<>>
    ELSE LET m == CHOOSE x \in S : \A y \in S : x <= y
         IN  <<m>> \o Ascending(S \ {m})

\* `for u in set(connected): self.units[u].init_pre_syn_update()`
RECURSIVE ResolveAll(_, _)
ResolveAll(out, ids) ==
    IF out.err # Ok \/ ids = <<>> THEN {out}
    ELSE UNION {ResolveAll(o, Tail(ids)) : o \in init_pre_syn_update(out.net, Head(ids))}

\* The weights drawn for n_conns connections: np.random.uniform yields numpy
\* scalars, the scalar form a list of Python floats
WeightErr(w) ==
    CASE w.kind = "uniform" -> Ok
      [] w.kind = "dict" -> "NotImplementedError:weights"
      [] w.kind = "scalar" -> Ok
      [] OTHER -> "TypeError:init_w"

Weightz(w, n_conns) ==
    CASE w.kind = "uniform" -> [1..n_conns -> {Float64(v) : v \in w.low..w.high}]
      [] OTHER -> {[k \in 1..n_conns |-> Scalar(w.value)]}

\* The input ports of n_conns connections
PortzErr(inp_ports, n_conns) ==
    CASE inp_ports.kind = "absent" -> Ok
      [] inp_ports.kind = "int" -> Ok
      [] inp_ports.kind = "list" ->
           IF Len(inp_ports.list) = n_conns THEN Ok ELSE "ValueError:inp_ports"
      [] OTHER -> "TypeError:inp_ports"

portz(inp_ports, n_conns) ==
    CASE inp_ports.kind = "int" -> [k \in 1..n_conns |-> inp_ports.value]
      [] inp_ports.kind = "list" -> inp_ports.list
      [] OTHER -> [k \in 1..n_conns |-> 0]

\* connect with the upper limit of the quick test on the IDs left out
connectLowerTestOnly(N, from_list, to_list, conn_spec, syn_spec) ==
    LET ids == Range(from_list) \cup Range(to_list)
        wired(c, w, d) ==
            With(Wire(N, c, w, d, portz(syn_spec.inp_ports, Len(c)), syn_spec, 1),
                 LAMBDA l : {Left(o.net, o.err, l.syn_spec) :
                               o \in ResolveAll(Outcome(l.net, l.err),
                                                Ascending({c[k][1] : k \in 1..Len(c)}
                                                          \cup {c[k][2] : k \in 1..Len(c)}))})
    IN  IF ids = {} \/ \E i \in ids : i < 0
        THEN {Left(N, "ValueError:ID", syn_spec)}
        ELSE IF RuleErr(from_list, to_list, conn_spec) # Ok
        THEN {Left(N, RuleErr(from_list, to_list, conn_spec), syn_spec)}
        ELSE IF WeightErr(syn_spec.init_w) # Ok
        THEN {Left(N, WeightErr(syn_spec.init_w), syn_spec)}
        ELSE IF DelayErr(conn_spec.delay) # Ok
        THEN {Left(N, DelayErr(conn_spec.delay), syn_spec)}
        ELSE UNION {IF PortzErr(syn_spec.inp_ports, Len(c)) # Ok
                    THEN {Left(N, PortzErr(syn_spec.inp_ports, Len(c)), syn_spec)}
                    ELSE UNION {wired(c, w, d) :
                                  <<w, d>> \in Weightz(syn_spec.init_w, Len(c))
                                                \X Delayz(conn_spec.delay, Len(c))} :
                    c \in Connections(from_list, to_list, conn_spec)}

connect(N, from_list, to_list, conn_spec, syn_spec) ==
    LET ids == Range(from_list) \cup Range(to_list)
        wired(c, w, d) ==
            With(Wire(N, c, w, d, portz(syn_spec.inp_ports, Len(c)), syn_spec, 1),
                 LAMBDA l : {Left(o.net, o.err, l.syn_spec) :
                               o \in ResolveAll(Outcome(l.net, l.err),
                                                Ascending({c[k][1] : k \in 1..Len(c)}
                                                          \cup {c[k][2] : k \in 1..Len(c)}))})
    IN  IF ids = {} \/ \E i \in ids : i > N.n_units - 1 \/ i < 0
        THEN {Left(N, "ValueError:ID", syn_spec)}
        ELSE IF RuleErr(from_list, to_list, conn_spec) # Ok
        THEN {Left(N, RuleErr(from_list, to_list, conn_spec), syn_spec)}
        ELSE IF WeightErr(syn_spec.init_w) # Ok
        THEN {Left(N, WeightErr(syn_spec.init_w), syn_spec)}
        ELSE IF DelayErr(conn_spec.delay) # Ok
        THEN {Left(N, DelayErr(conn_spec.delay), syn_spec)}
        ELSE UNION {IF PortzErr(syn_spec.inp_ports, Len(c)) # Ok
                    THEN {Left(N, PortzErr(syn_spec.inp_ports, Len(c)), syn_spec)}
                    ELSE UNION {wired(c, w, d) :
                                  <<w, d>> \in Weightz(syn_spec.init_w, Len(c))
                                                \X Delayz(conn_spec.delay, Len(c))} :
                    c \in Connections(from_list, to_list, conn_spec)}

-----------------------------------------------------------------------------
(* network.set_plant_inputs and plant.append_inputs *)

\* plant.append_inputs: the input functions are appended before the delays
\* are validated, the synapses after
RECURSIVE AppendDels(_, _, _, _)
AppendDels(p, delys, ports, k) ==
    IF k > Min(Len(delys), Len(ports)) THEN Outcome(p, Ok)
    ELSE IF delys[k] < min_delay THEN Outcome(p, "ValueError:delay_small")
    ELSE IF delys[k] % min_delay # 0 THEN Outcome(p, "ValueError:delay_multiple")
    ELSE AppendDels([p EXCEPT !.inp_dels[ports[k] + 1] = Append(@, delys[k])],
                    delys, ports, k + 1)

RECURSIVE AppendEach(_, _, _, _)
AppendEach(lists, items, ports, k) ==
    IF k > Min(Len(items), Len(ports)) THEN lists
    ELSE AppendEach([lists EXCEPT ![ports[k] + 1] = Append(@, items[k])],
                    items, ports, k + 1)

append_inputs(p, inp_funcs, ports, delys, synaps) ==
    IF Len(inp_funcs) # Len(ports)
       \/ \E k \in 1..Len(ports) : ports[k] >= p.inp_dim \/ ports[k] < 0
    THEN Outcome(p, "ValueError:ports")
    ELSE LET p1 == [p EXCEPT !.inputs = AppendEach(@, inp_funcs, ports, 1)]
             d == AppendDels(p1, delys, ports, 1)
         IN  IF d.err # Ok THEN d
             ELSE IF \E k \in 1..Len(synaps) : synaps[k].type # "static"
             THEN Outcome(d.net, "NotImplementedError:static")
             ELSE Outcome([d.net EXCEPT !.inp_syns = AppendEach(@, synaps, ports, 1)], Ok)

\* The loop that lengthens the buffers of the sending units
RECURSIVE Lengthen(_, _, _, _)
Lengthen(N, delys, unitIDs, k) ==
    IF k > Min(Len(delys), Len(unitIDs)) THEN Outcome(N, Ok)
    ELSE LET u == N.units[unitIDs[k] + 1]
             longer == [u EXCEPT !.delay = delys[k] + min_delay]
         IN  IF delys[k] >= u.delay
             THEN IF InitBuffersErr(N.sim_time) # Ok
                  THEN Outcome(SetUnit(N, unitIDs[k], longer), InitBuffersErr(N.sim_time))
                  ELSE Lengthen(SetUnit(N, unitIDs[k], init_buffers(longer)),
                                delys, unitIDs, k + 1)
             ELSE Lengthen(N, delys, unitIDs, k + 1)

set_plant_inputs(N, unitIDs, plantID, conn_spec, syn_spec) ==
    IF unitIDs = <<>> \/ \E k \in 1..Len(unitIDs) : unitIDs[k] >= N.n_units \/ unitIDs[k] < 0
    THEN Outcome(N, "ValueError:ID")
    ELSE IF plantID >= N.n_plants \/ plantID < 0 THEN Outcome(N, "ValueError:plantID")
    ELSE IF conn_spec.delays.kind = "float" THEN Outcome(N, "UnboundLocalError:inp_funcs")
    ELSE IF conn_spec.delays.kind # "list" THEN Outcome(N, "ValueError:delays")
    ELSE IF syn_spec.type # "static" THEN Outcome(N, "NotImplementedError:static")
    ELSE IF syn_spec.init_w.kind # "scalar" THEN Outcome(N, "ValueError:init_w")
    ELSE LET delys == conn_spec.delays.list
             synaps == [k \in 1..Len(unitIDs) |->
                          NewSynapse("static", unitIDs[k], plantID,
                                     syn_spec.init_w.value, 0, 0 - 1)]
             inp_funcs == [k \in 1..Len(unitIDs) |-> ActOf(N, unitIDs[k])]
             a == append_inputs(N.plants[plantID + 1], inp_funcs,
                                conn_spec.inp_ports, delys, synaps)
             N1 == [N EXCEPT !.plants[plantID + 1] = a.net]
         IN  IF a.err # Ok THEN Outcome(N1, a.err)
             ELSE Lengthen(N1, delys, unitIDs, 1)

-----------------------------------------------------------------------------
(* network.set_plant_outputs *)

\* The loop over the (output, target, port) triples
RECURSIVE WirePlant(_, _, _, _, _, _)
WirePlant(N, plantID, conns, delayz, syn_spec, idx) ==
    IF idx > Len(conns) THEN Outcome(N, Ok)
    ELSE LET output == conns[idx][1]
             target == conns[idx][2]
             port == conns[idx][3]
             N1 == [N EXCEPT
                      !.act[target + 1] =
                          Append(@, IF N.units[target + 1].multi_port
                                    THEN [kind |-> "plant_var", id |-> plantID, f |-> 0]
                                    ELSE [kind |-> "plant_fun", id |-> plantID, f |-> output]),
                      !.syns[target + 1] =
                          Append(@, NewSynapse(syn_spec.type, plantID, target,
                                               syn_spec.init_w.value, port, output)),
                      !.delays[target + 1] = Append(@, delayz[idx])]
             pl == N1.plants[plantID + 1]
             longer == [pl EXCEPT !.delay = delayz[idx] + min_delay]
         IN  IF pl.delay <= delayz[idx]
             THEN IF N.sim_time # 0
                  THEN Outcome([N1 EXCEPT !.plants[plantID + 1] = longer],
                               "AssertionError:plant_init_buffers")
                  ELSE WirePlant([N1 EXCEPT !.plants[plantID + 1] = plant_init_buffers(longer)],
                                 plantID, conns, delayz, syn_spec, idx + 1)
             ELSE WirePlant(N1, plantID, conns, delayz, syn_spec, idx + 1)

\* port_map is a single list of (output, port) tuples, used for every unit.
\* The dictionary and the scalar form of 'delays' read the key 'delay', which
\* the documented conn_spec does not hold.
set_plant_outputs(N, plantID, unitIDs, conn_spec, syn_spec) ==
    LET pm == conn_spec.port_map
        conns == [k \in 1..(Len(unitIDs) * Len(pm)) |->
                    <<pm[((k - 1) % Len(pm)) + 1][1],
                      unitIDs[((k - 1) \div Len(pm)) + 1],
                      pm[((k - 1) % Len(pm)) + 1][2]>>]
    IN  IF unitIDs = <<>> \/ \E k \in 1..Len(unitIDs) : unitIDs[k] >= N.n_units \/ unitIDs[k] < 0
        THEN {Outcome(N, "ValueError:ID")}
        ELSE IF plantID >= N.n_plants \/ plantID < 0 THEN {Outcome(N, "ValueError:plantID")}
        ELSE IF syn_spec.init_w.kind # "scalar" THEN {Outcome(N, "TypeError:init_w")}
        ELSE IF conn_spec.delays.kind \in {"dict", "float"} THEN {Outcome(N, "KeyError:delay")}
        ELSE IF conn_spec.delays.kind # "list" THEN {Outcome(N, "TypeError:delay")}
        ELSE IF Len(conn_spec.delays.list) # Len(conns) THEN {Outcome(N, "ValueError:delays")}
        ELSE ResolveAll(WirePlant(N, plantID, conns, conn_spec.delays.list, syn_spec, 1),
                        Ascending({conns[k][2] : k \in 1..Len(conns)}))

-----------------------------------------------------------------------------
(* Reading inputs during a tick *)

\* Calling an entry of network.act (or of plant.inputs) with one argument;
\* the get_state_var a multi-port unit is given takes two
ActErr(N, e, t) ==
    CASE e.kind = "fun" -> IF e.f = 0 THEN "TypeError:None" ELSE Ok
      [] e.kind = "plant_fun" ->
           IF e.f >= N.plants[e.id + 1].dim THEN "IndexError:plant_out" ELSE Ok
      [] e.kind = "plant_var" -> "TypeError:get_state_var"
      [] OTHER -> Ok

ActVal(N, e, t) ==
    CASE e.kind = "fun" -> SourceFun(e.f, t)
      [] e.kind = "plant_fun" -> get_state_var(N.plants[e.id + 1], t, e.f)
      [] OTHER -> get_act(N.units[e.id + 1], t)

\* unit.get_inputs: the delayed inputs of unit uid at `time`
get_inputs(N, uid, time) ==
    [j \in 1..Len(N.act[uid + 1]) |->
        ActVal(N, N.act[uid + 1][j], time - N.delays[uid + 1][j])]

InputsErr(N, uid, time) ==
    FirstErr([j \in 1..Len(N.act[uid + 1]) |->
                ActErr(N, N.act[uid + 1][j], time - N.delays[uid + 1][j])])

\* unit.get_input_sum
get_input_sum(N, uid, time) ==
    SeqSum([j \in 1..Len(N.syns[uid + 1]) |->
               N.syns[uid + 1][j].w * get_inputs(N, uid, time)[j]])

\* unit.get_exp_sc_input_sum: zip stops at the shortest of its lists
get_exp_sc_input_sum(N, uid, time) ==
    SeqSum([j \in 1..Min(Len(N.units[uid + 1].scale_facs), Len(N.syns[uid + 1])) |->
               N.units[uid + 1].scale_facs[j] * N.syns[uid + 1][j].w
                 * get_inputs(N, uid, time)[j]])

\* Stand-in for the sigmoidal f of exp_dist_sigmoidal (threshold 0)
f(arg) == IF arg < 0 THEN 0 ELSE IF arg = 0 THEN ValScale \div 2 ELSE ValScale

\* unit.get_mp_input_sum calls every entry with the time and the plant_out
\* of its synapse: only the get_state_var of a plant takes the two
MpInputErr(N, uid, j, t) ==
    LET e == N.act[uid + 1][j]
        syn == N.syns[uid + 1][j]
    IN  IF syn.plant_out < 0 THEN "AttributeError:plant_out"
        ELSE IF e.kind # "plant_var" THEN "TypeError:get_act"
        ELSE IF syn.plant_out >= N.plants[e.id + 1].dim THEN "IndexError:plant_out"
        ELSE Ok

get_mp_input_sum(N, uid, t) ==
    SeqSum([j \in 1..Len(N.syns[uid + 1]) |->
               N.syns[uid + 1][j].w
                 * get_state_var(N.plants[N.act[uid + 1][j].id + 1],
                                 t - N.delays[uid + 1][j], N.syns[uid + 1][j].plant_out)])

\* The value the derivatives of a unit class drive the activity towards
\* (linear: get_input_sum, mp_linear: get_mp_input_sum, exp_dist_sigmoidal:
\* f(get_exp_sc_input_sum)), and the exception the evaluation raises
Drive(N, uid, t) ==
    CASE N.units[uid + 1].type = "exp_dist_sigmoidal" ->
           f(get_exp_sc_input_sum(N, uid, t))
      [] N.units[uid + 1].type = "mp_linear" -> get_mp_input_sum(N, uid, t)
      [] OTHER -> get_input_sum(N, uid, t)

DriveErr(N, uid, t) ==
    CASE N.units[uid + 1].type = "exp_dist_sigmoidal"
           /\ "scale_facs" \notin N.units[uid + 1].has -> "AttributeError:scale_facs"
      [] N.units[uid + 1].type = "mp_linear" ->
           FirstErr([j \in 1..Len(N.syns[uid + 1]) |-> MpInputErr(N, uid, j, t)])
      [] OTHER -> InputsErr(N, uid, t)

\* unit.get_lpf_fast(steps) and what it raises
get_lpf_fast(u, steps) == u.lpf_fast_buff[Len(u.lpf_fast_buff) - steps]

LpfFastErr(u, steps) ==
    IF "lpf_fast_buff" \notin u.has THEN "AttributeError:lpf_fast_buff"
    ELSE IF steps + 1 > Len(u.lpf_fast_buff) \/ steps < 0 - Len(u.lpf_fast_buff)
    THEN "IndexError:lpf_fast_buff"
    ELSE Ok

\* Stand-in for cur + (lpf - cur) * exp((last_time - time) / tau): unchanged
\* when no time has passed, halfway to the current value otherwise
Decay(lpf, cur, last_time, time) ==
    IF time = last_time THEN lpf ELSE (cur + lpf) \div 2

\* The current activity an lpf updater reads: buffer[-1] for a buffered unit,
\* get_act(time) in the versions the source class overrides
CurAct(u, time) ==
    IF u.type = "source" THEN SourceFun(u.function, time) ELSE u.buffer[Len(u.buffer)]

CurActErr(u) ==
    IF u.type = "source" /\ u.function = 0 THEN "TypeError:None" ELSE Ok

\* The assertion `time >= self.last_time`, which the source versions drop
BackwardsErr(u, time) ==
    IF u.type # "source" /\ time < u.last_time THEN "AssertionError:backwards" ELSE Ok

Roll1(buff, new) == [k \in 1..Len(buff) |-> IF k = Len(buff) THEN new ELSE buff[k + 1]]

-----------------------------------------------------------------------------
(* The requirement updaters of units.py.  Each yields the unit after the call
   and the exception raised; an assignment made before the raise stays. *)

upd_lpf_fast(N, uid, time) ==
    LET u == N.units[uid + 1]
        u1 == [u EXCEPT !.lpf_fast = Decay(u.lpf_fast, CurAct(u, time), u.last_time, time)]
    IN  IF BackwardsErr(u, time) # Ok THEN Outcome(u, BackwardsErr(u, time))
        ELSE IF CurActErr(u) # Ok THEN Outcome(u, CurActErr(u))
        ELSE IF "lpf_fast_buff" \notin u.has THEN Outcome(u1, "AttributeError:lpf_fast_buff")
        ELSE Outcome([u1 EXCEPT !.lpf_fast_buff = Roll1(@, u1.lpf_fast)], Ok)

upd_lpf_mid(N, uid, time) ==
    LET u == N.units[uid + 1]
        u1 == [u EXCEPT !.lpf_mid = Decay(u.lpf_mid, CurAct(u, time), u.last_time, time)]
    IN  IF BackwardsErr(u, time) # Ok THEN Outcome(u, BackwardsErr(u, time))
        ELSE IF CurActErr(u) # Ok THEN Outcome(u, CurActErr(u))
        ELSE IF "lpf_mid_buff" \notin u.has THEN Outcome(u1, "AttributeError:lpf_mid_buff")
        ELSE Outcome([u1 EXCEPT !.lpf_mid_buff = Roll1(@, u1.lpf_mid)], Ok)

upd_inp_vector(N, uid, time) ==
    LET u == N.units[uid + 1]
    IN  IF InputsErr(N, uid, time) # Ok THEN Outcome(u, InputsErr(N, uid, time))
        ELSE Outcome([u EXCEPT !.inp_vector = get_inputs(N, uid, time),
                               !.has = @ \cup {"inp_vector"}], Ok)

upd_inp_avg(N, uid, time) ==
    LET u == N.units[uid + 1]
        sl == u.snorm_list_dels
        errs == [k \in 1..Len(sl) |-> LpfFastErr(N.units[sl[k][1] + 1], sl[k][2])]
        vals == [k \in 1..Len(sl) |-> get_lpf_fast(N.units[sl[k][1] + 1], sl[k][2])]
    IN  IF time < u.last_time THEN Outcome(u, "AssertionError:backwards")
        ELSE IF FirstErr(errs) # Ok THEN Outcome(u, FirstErr(errs))
        ELSE IF Len(sl) = 0 THEN Outcome(u, "ZeroDivisionError:n_hebbsnorm")
        ELSE Outcome([u EXCEPT !.inp_avg = SeqSum(vals) \div Len(sl)], Ok)

upd_lpf_mid_inp_sum(N, uid, time) ==
    LET u == N.units[uid + 1]
        u1 == [u EXCEPT !.lpf_mid_inp_sum =
                  Decay(u.lpf_mid_inp_sum, SeqSum(u.inp_vector), u.last_time, time)]
    IN  IF time < u.last_time THEN Outcome(u, "AssertionError:backwards")
        ELSE IF "inp_vector" \notin u.has THEN Outcome(u, "AttributeError:inp_vector")
        ELSE IF "lpf_mid_inp_sum_buff" \notin u.has
        THEN Outcome(u1, "AttributeError:lpf_mid_inp_sum_buff")
        ELSE Outcome([u1 EXCEPT !.lpf_mid_inp_sum_buff = Roll1(@, u1.lpf_mid_inp_sum)], Ok)

\* above and below: the fractions of inputs over and under the unit's rate,
\* an input equal to it counting one half on each side
upd_balance(N, uid, time) ==
    LET u == N.units[uid + 1]
        inputs == u.inp_vector
        n == Len(inputs)
        r == u.buffer[Len(u.buffer)]
        half == ValScale \div 2
        side(gt) == SeqSum([k \in 1..n |->
                              IF inputs[k] = r THEN half
                              ELSE IF (inputs[k] > r) = gt THEN ValScale ELSE 0])
    IN  IF "inp_vector" \notin u.has THEN Outcome(u, "AttributeError:inp_vector")
        ELSE IF u.type = "source" THEN Outcome(u, "AttributeError:buffer")
        ELSE Outcome([u EXCEPT !.above = IF n = 0 THEN 0 ELSE side(TRUE) \div n,
                               !.below = IF n = 0 THEN 0 ELSE side(FALSE) \div n,
                               !.has = @ \cup {"balance"}], Ok)

\* upd_exp_scale reads, in this order: lpf_fast_buff, c, below and above,
\* slope and thresh, inp_vector under inh_idx and exc_idx (an empty index
\* array is a float array, which numpy refuses as an index), then rescales
\* the factors of the excitatory inputs (stand-in: by the parity of the rate)
upd_exp_scale(N, uid, time) ==
    LET u == N.units[uid + 1]
        missing == {"c", "balance", "slope", "thresh", "inp_vector", "Kp",
                    "scale_facs", "tau_scale"} \ u.has
        r == get_lpf_fast(u, 0)
    IN  IF LpfFastErr(u, 0) # Ok THEN Outcome(u, LpfFastErr(u, 0))
        ELSE IF missing # {} THEN Outcome(u, "AttributeError:exp_scale")
        ELSE IF u.inh_idx = {} \/ u.exc_idx = {} THEN Outcome(u, "IndexError:float_index")
        ELSE IF \E k \in u.inh_idx \cup u.exc_idx : k > Len(u.inp_vector)
        THEN Outcome(u, "IndexError:inp_vector")
        ELSE Outcome([u EXCEPT !.scale_facs =
                        [k \in 1..Len(@) |-> IF k \in u.exc_idx THEN 1 + (r % 2) ELSE @[k]]],
                     Ok)

upd_thresh(N, uid, time) ==
    LET u == N.units[uid + 1]
        missing == {"c", "balance", "thresh", "tau_thr"} \ u.has
    IN  IF LpfFastErr(u, 0) # Ok THEN Outcome(u, LpfFastErr(u, 0))
        ELSE IF missing # {} THEN Outcome(u, "AttributeError:thresh")
        ELSE Outcome(u, Ok)

\* Calling a member of unit.functions
CallUpdater(name, N, uid, time) ==
    CASE name = "upd_lpf_fast" -> upd_lpf_fast(N, uid, time)
      [] name = "upd_lpf_mid" -> upd_lpf_mid(N, uid, time)
      [] name = "upd_inp_vector" -> upd_inp_vector(N, uid, time)
      [] name = "upd_inp_avg" -> upd_inp_avg(N, uid, time)
      [] name = "upd_lpf_mid_inp_sum" -> upd_lpf_mid_inp_sum(N, uid, time)
      [] name = "upd_balance" -> upd_balance(N, uid, time)
      [] name = "upd_exp_scale" -> upd_exp_scale(N, uid, time)
      [] OTHER -> upd_thresh(N, uid, time)

\* pre_syn_update(time): `lambda time: None` until init_pre_syn_update
\* replaces it by the call of every member of functions, in iteration order
RECURSIVE CallAll(_, _, _, _)
CallAll(N, uid, time, k) ==
    IF k > Len(N.units[uid + 1].functions) THEN Outcome(N, Ok)
    ELSE With(CallUpdater(N.units[uid + 1].functions[k], N, uid, time),
              LAMBDA o : With(SetUnit(N, uid, o.net),
                              LAMBDA N1 : IF o.err # Ok THEN Outcome(N1, o.err)
                                          ELSE CallAll(N1, uid, time, k + 1)))

pre_syn_update(N, uid, time) ==
    IF N.units[uid + 1].pre_syn_update = "none" THEN Outcome(N, Ok)
    ELSE CallAll(N, uid, time, 1)

-----------------------------------------------------------------------------
(* The update of a synapse.  Stand-ins for the learning rules: each reads the
   requirement values its class declares (the pre_ ones on the sending unit,
   delay_steps back) and moves its weight by them. *)

syn_update(N, uid, j, time) ==
    LET syn == N.syns[uid + 1][j]
        post == N.units[syn.postID + 1]
        pre == N.units[syn.preID + 1]
        reqs == upd_requirements(syn.type)
        errs == <<IF reqs # {} /\ syn.delay_steps < 0 THEN "AttributeError:delay_steps" ELSE Ok,
                  IF "inp_avg" \in reqs /\ "inp_avg" \notin post.has
                  THEN "AttributeError:inp_avg" ELSE Ok,
                  IF "balance" \in reqs /\ syn.type # "scaled" /\ "balance" \notin post.has
                  THEN "AttributeError:below" ELSE Ok,
                  IF "lpf_fast" \in reqs THEN LpfFastErr(post, 0) ELSE Ok,
                  IF "pre_lpf_fast" \in reqs /\ syn.preID >= Len(N.units)
                  THEN "IndexError:units" ELSE Ok,
                  IF "pre_lpf_fast" \in reqs /\ syn.preID < Len(N.units)
                  THEN LpfFastErr(pre, syn.delay_steps) ELSE Ok>>
        w == CASE syn.type = "oja" ->
                    syn.w + get_lpf_fast(pre, syn.delay_steps) - get_lpf_fast(post, 0)
               [] syn.type = "hebbsnorm" ->
                    syn.w + get_lpf_fast(pre, syn.delay_steps) - post.inp_avg
               [] syn.type = "exp_rate_dist" -> syn.w + post.below - post.above
               [] OTHER -> syn.w
    IN  IF FirstErr(errs) # Ok THEN Outcome(N, FirstErr(errs))
        ELSE IF syn.type \in {"static", "scaled"} THEN Outcome(N, Ok)
        ELSE Outcome([N EXCEPT !.syns[uid + 1][j].w = w % ValMod], Ok)

-----------------------------------------------------------------------------
(* unit.update, source.update and plant.update.  A tick in progress is a
   record [net, err, log]: the network, the exception that ended the tick
   ("ok" while it runs) and the steps taken so far. *)

Event(ev, id, k) == [ev |-> ev, id |-> id, k |-> k]

Step(S, N, e, events) == [net |-> N, err |-> e, log |-> S.log \o events]

\* `for pre in self.net.syns[self.ID]: pre.update(time)`
RECURSIVE UpdateSyns(_, _, _, _)
UpdateSyns(S, uid, time, j) ==
    IF S.err # Ok \/ j > Len(S.net.syns[uid + 1]) THEN S
    ELSE With(syn_update(S.net, uid, j, time),
              LAMBDA o : With(Step(S, o.net, o.err, <<Event("syn", uid, j)>>),
                              LAMBDA S1 : UpdateSyns(S1, uid, time, j + 1)))

\* The synapse updates ahead of pre_syn_update
RefreshAfterSyns(S, uid, time, with_syns) ==
    With(With(With(IF with_syns THEN UpdateSyns(S, uid, time, 1) ELSE S,
                   LAMBDA S1 : With(pre_syn_update(S1.net, uid, time),
                                    LAMBDA o : IF S1.err # Ok THEN S1
                                               ELSE Step(S1, o.net, o.err,
                                                         <<Event("refresh", uid, 0)>>))),
              LAMBDA S2 : S2),
         LAMBDA S3 : IF S3.err # Ok THEN S3
                     ELSE [S3 EXCEPT !.net.units[uid + 1].last_time = time])

\* pre_syn_update, the synapse updates, then last_time: the tail of
\* unit.update and, without the synapse updates, the whole of source.update
\* A refresh that stamps the unit with the time the tick ends at
RefreshStampingAhead(S, uid, time, with_syns) ==
    With(With(With(pre_syn_update(S.net, uid, time),
                   LAMBDA o : Step(S, o.net, o.err, <<Event("refresh", uid, 0)>>)),
              LAMBDA S1 : IF with_syns THEN UpdateSyns(S1, uid, time, 1) ELSE S1),
         LAMBDA S2 : IF S2.err # Ok THEN S2
                     ELSE [S2 EXCEPT !.net.units[uid + 1].last_time = time + min_delay])

Refresh(S, uid, time, with_syns) ==
    With(With(With(pre_syn_update(S.net, uid, time),
                   LAMBDA o : Step(S, o.net, o.err, <<Event("refresh", uid, 0)>>)),
              LAMBDA S1 : IF with_syns THEN UpdateSyns(S1, uid, time, 1) ELSE S1),
         LAMBDA S2 : IF S2.err # Ok THEN S2
                     ELSE [S2 EXCEPT !.net.units[uid + 1].last_time = time])

\* Stand-in for odeint over new_times: an explicit Euler step with unit gain,
\* so the value at a grid time is the drive at the grid time before it
Integrate(N, uid, new_times) ==
    [k \in 1..min_buff_size |-> Drive(N, uid, new_times[k]) % ValMod]

NewTimes(times) == [k \in 1..(min_buff_size + 1) |-> times[Len(times)] + times_grid[k]]

\* The unit once `self.times` is rolled and refilled from new_times[1:]
RollTimes(u) ==
    [u EXCEPT !.times = RollIn(@, min_buff_size, offset(u), Tail(NewTimes(@)))]

\* ... and once `self.buffer` is rolled and refilled from the solution
RollBuffer(N1, uid, u) ==
    [N1.units[uid + 1] EXCEPT
        !.buffer = RollIn(@, min_buff_size, offset(u), Integrate(N1, uid, NewTimes(u.times)))]

unit_update(S, uid, time) ==
    IF S.err # Ok THEN S
    ELSE IF S.net.units[uid + 1].type = "source" THEN Refresh(S, uid, time, FALSE)
    ELSE With(SetUnit(S.net, uid, RollTimes(S.net.units[uid + 1])),
              LAMBDA N1 :
                With(Step(S, N1,
                          FirstErr([k \in 1..min_buff_size |->
                                      DriveErr(N1, uid, NewTimes(S.net.units[uid + 1].times)[k])]),
                          <<Event("integrate", uid, 0)>>),
                     LAMBDA S1 :
                       IF S1.err # Ok THEN S1
                       ELSE With([S1 EXCEPT !.net = SetUnit(N1, uid,
                                        RollBuffer(N1, uid, S.net.units[uid + 1]))],
                                 LAMBDA S2 : Refresh(S2, uid, time, TRUE))))

\* plant.get_input_sum and the exception its inputs raise
plant_input_sum(N, p, time, port) ==
    SeqSum([j \in 1..Min(Len(p.inputs[port + 1]),
                         Min(Len(p.inp_dels[port + 1]), Len(p.inp_syns[port + 1]))) |->
               ActVal(N, p.inputs[port + 1][j], time - p.inp_dels[port + 1][j])
                 * p.inp_syns[port + 1][j].w])

PortErr(N, p, time, port) ==
    FirstErr([j \in 1..Min(Len(p.inputs[port + 1]),
                           Min(Len(p.inp_dels[port + 1]), Len(p.inp_syns[port + 1]))) |->
                ActErr(N, p.inputs[port + 1][j], time - p.inp_dels[port + 1][j])])

PlantInputsErr(N, p, time) ==
    FirstErr([k \in 1..p.inp_dim |-> PortErr(N, p, time, k - 1)])

\* conn_tester.derivatives, taken as one explicit Euler step with unit gain
derivatives(N, p, y, t) ==
    <<(y[1] - y[2] * plant_input_sum(N, p, t, 0)) % ValMod,
      (y[2] + y[1] * plant_input_sum(N, p, t, 1)) % ValMod,
      (y[3] - y[3] * plant_input_sum(N, p, t, 2)) % ValMod>>

RECURSIVE PlantIntegrate(_, _, _, _, _)
PlantIntegrate(N, p, y, new_times, k) ==
    IF k > min_buff_size THEN <<>>
    ELSE LET y1 == derivatives(N, p, y, new_times[k])
         IN  <<y1>> \o PlantIntegrate(N, p, y1, new_times, k + 1)

plant_update(S, pid, time) ==
    LET p == S.net.plants[pid + 1]
        new_times == [k \in 1..(min_buff_size + 1) |-> p.times[Len(p.times)] + times_grid[k]]
        off == (p.steps - 1) * min_buff_size
        p1 == [p EXCEPT !.times = RollIn(p.times, min_buff_size, off, Tail(new_times))]
        N1 == [S.net EXCEPT !.plants[pid + 1] = p1]
        e == FirstErr([k \in 1..min_buff_size |-> PlantInputsErr(N1, p1, new_times[k])])
        p2 == [p1 EXCEPT !.buffer =
                  RollIn(p.buffer, min_buff_size, off,
                         PlantIntegrate(N1, p1, p.buffer[Len(p.buffer)], new_times, 1))]
    IN  IF S.err # Ok THEN S
        ELSE IF p.times[Len(p.times)] > time
        THEN Step(S, S.net, "AssertionError:desynchronized", <<>>)
        ELSE IF e # Ok THEN Step(S, N1, e, <<Event("integrate_plant", pid, 0)>>)
        ELSE Step(S, [S.net EXCEPT !.plants[pid + 1] = p2], Ok,
                  <<Event("integrate_plant", pid, 0)>>)

-----------------------------------------------------------------------------
(* network.run *)

\* `unit_stor[uid][step] = unit.get_act(self.sim_time)`: unit_stor has n_units
\* rows, and a float array refuses the None of a null source function
RECURSIVE SampleUnits(_, _)
SampleUnits(S, uid) ==
    IF S.err # Ok \/ uid >= Len(S.net.units) THEN S
    ELSE LET u == S.net.units[uid + 1]
             e == IF uid >= S.net.n_units THEN "IndexError:unit_stor"
                  ELSE IF u.type = "source" /\ u.function = 0 THEN "TypeError:None"
                  ELSE Ok
         IN  With(Step(S, S.net, e, <<Event("sample", uid, 0)>>),
                  LAMBDA S1 : SampleUnits(S1, uid + 1))

RECURSIVE SamplePlants(_, _)
SamplePlants(S, pid) ==
    IF S.err # Ok \/ pid >= Len(S.net.plants) THEN S
    ELSE With(Step(S, S.net, Ok, <<Event("sample_plant", pid, 0)>>),
              LAMBDA S1 : SamplePlants(S1, pid + 1))

\* `for unit in self.units: unit.update(self.sim_time)`, the units taken in
\* the order given
RECURSIVE UpdateUnits(_, _, _)
UpdateUnits(S, order, k) ==
    IF S.err # Ok \/ k > Len(order) THEN S
    ELSE With(unit_update(S, order[k], S.net.sim_time),
              LAMBDA S1 : UpdateUnits(S1, order, k + 1))

RECURSIVE UpdatePlants(_, _)
UpdatePlants(S, pid) ==
    IF S.err # Ok \/ pid >= Len(S.net.plants) THEN S
    ELSE With(plant_update(S, pid, S.net.sim_time),
              LAMBDA S1 : UpdatePlants(S1, pid + 1))

ListOrder(N) == [k \in 1..Len(N.units) |-> k - 1]

\* A tick that records each unit only after the units were updated
TickSamplingLate(N, order) ==
    With(With(With(With(With([net |-> N, err |-> Ok, log |-> <<>>],
                             LAMBDA S : UpdateUnits(S, order, 1)),
                        LAMBDA S : SampleUnits(S, 0)),
                   LAMBDA S : SamplePlants(S, 0)),
              LAMBDA S : UpdatePlants(S, 0)),
         LAMBDA S : IF S.err # Ok THEN S
                    ELSE [S EXCEPT !.net.sim_time = @ + min_delay])

\* One pass of the loop body of network.run
Tick(N, order) ==
    With(With(With(With(With([net |-> N, err |-> Ok, log |-> <<>>],
                             LAMBDA S : SampleUnits(S, 0)),
                        LAMBDA S : SamplePlants(S, 0)),
                   LAMBDA S : UpdateUnits(S, order, 1)),
              LAMBDA S : UpdatePlants(S, 0)),
         LAMBDA S : IF S.err # Ok THEN S
                    ELSE [S EXCEPT !.net.sim_time = @ + min_delay])

\* The number of steps rounded up instead of down
NstepsCeil(total_time) == (total_time + min_delay - 1) \div min_delay

\* A fencepost slip in the number of steps of a run
NstepsInclusive(total_time) == total_time \div min_delay + 1

Nsteps(total_time) == total_time \div min_delay

\* The loop of network.run: R holds the network, the exception, the log of
\* every tick begun and the times array
RECURSIVE RunLoop(_, _)
RunLoop(R, step) ==
    IF R.err # Ok \/ step = 0 THEN R
    ELSE With(Tick(R.net, ListOrder(R.net)),
              LAMBDA S : With([net |-> S.net, err |-> S.err,
                               log |-> Append(R.log, S.log),
                               times |-> Append(R.times, R.net.sim_time)],
                              LAMBDA R1 : RunLoop(R1, step - 1)))

run(N, total_time) ==
    With([net |-> N, err |-> Ok, log |-> <<>>, times |-> <<>>],
         LAMBDA R : RunLoop(R, Nsteps(total_time)))

-----------------------------------------------------------------------------
(* source.set_function *)

\* set_function that leaves the accessors already handed out as they are
set_functionUnitOnly(N, uid, function) ==
    [N EXCEPT !.units[uid + 1].function = function]

\* The unit's get_act becomes the function; so does every entry of net.act
\* whose synapse has the unit's ID as preID, and every input of a plant whose
\* synapse has it
set_function(N, uid, function) ==
    LET accessor == [kind |-> "fun", id |-> uid, f |-> function]
        inp_list(pl, port) ==
            [idx \in 1..Len(pl.inputs[port]) |->
                IF idx <= Len(pl.inp_syns[port]) /\ pl.inp_syns[port][idx].preID = uid
                THEN accessor ELSE pl.inputs[port][idx]]
    IN  [N EXCEPT
           !.units[uid + 1].function = function,
           !.act = [idx1 \in 1..Len(N.act) |->
                      [idx2 \in 1..Len(N.act[idx1]) |->
                          IF N.syns[idx1][idx2].preID = uid
                          THEN accessor ELSE N.act[idx1][idx2]]],
           !.plants = [k \in 1..Len(N.plants) |->
                         [N.plants[k] EXCEPT
                            !.inputs = [port \in 1..Len(N.plants[k].inputs) |->
                                           inp_list(N.plants[k], port)]]]]

-----------------------------------------------------------------------------
(* The calls a user of the network makes, as actions *)

TotalSyns(N) == SeqSum([i \in 1..Len(N.syns) |-> Len(N.syns[i])])

PlantInputs(N) ==
    SeqSum([k \in 1..(Len(N.plants) * PlantInpDim) |->
               Len(N.plants[((k - 1) \div PlantInpDim) + 1].inputs[((k - 1) % PlantInpDim) + 1])])

SetNet(N) ==
    /\ sim_time' = N.sim_time
    /\ n_units' = N.n_units
    /\ units' = N.units
    /\ n_plants' = N.n_plants
    /\ plants' = N.plants
    /\ delays' = N.delays
    /\ act' = N.act
    /\ syns' = N.syns

\* A wiring call returned or raised with outcome o
Called(o, name) ==
    /\ SetNet(o.net)
    /\ err' = o.err
    /\ op' = [name |-> name, T |-> 0]
    /\ raised' = IF o.err = Ok THEN raised ELSE raised \cup {o.err}
    /\ log' = <<>>
    /\ out_times' = <<>>

\* ... when the dictionaries it was given were built for this call alone
Wired(o, name) ==
    /\ Called(o, name)
    /\ UNCHANGED syn_dict

CreateUnits(counts, params_set) ==
    \E n \in counts, params \in params_set :
        /\ Len(units) + n <= MaxUnits
        /\ Wired(create_units(Net, n, params), "create_units")

CreatePlant(params_set) ==
    \E params \in params_set :
        /\ Len(plants) < MaxPlants
        /\ Wired(create_plant(Net, 1, params), "create_plant")

Connect(from_lists, to_lists, conn_specs, syn_specs, bound) ==
    \E from_list \in from_lists, to_list \in to_lists,
       conn_spec \in conn_specs, syn_spec \in syn_specs :
        /\ TotalSyns(Net) < bound
        /\ \E o \in connect(Net, from_list, to_list, conn_spec, syn_spec) :
            /\ TotalSyns(o.net) <= bound
            /\ Wired(o, "connect")

SetPlantInputs(lists, conn_specs, syn_specs) ==
    \E unitIDs \in lists, conn_spec \in conn_specs, syn_spec \in syn_specs :
        LET o == set_plant_inputs(Net, unitIDs, 0, conn_spec, syn_spec)
        IN  /\ PlantInputs(o.net) <= MaxPlantInputs
            /\ Wired(o, "set_plant_inputs")

SetPlantOutputs(lists, conn_specs, syn_specs) ==
    \E unitIDs \in lists, conn_spec \in conn_specs, syn_spec \in syn_specs :
        /\ TotalSyns(Net) < MaxWire
        /\ \E o \in set_plant_outputs(Net, 0, unitIDs, conn_spec, syn_spec) :
            /\ TotalSyns(o.net) <= MaxWire
            /\ Wired(o, "set_plant_outputs")

\* The caller builds a syn_spec dictionary and holds on to it
MakeSynSpec(syn_specs) ==
    \E syn_spec \in syn_specs :
        /\ syn_dict' = <<syn_spec>>
        /\ op' = [name |-> "syn_spec", T |-> 0]
        /\ UNCHANGED <<sim_time, n_units, units, n_plants, plants, delays, act, syns,
                       err, raised, log, out_times>>

\* connect called with the dictionary the caller holds
ConnectKept(from_lists, to_lists, conn_specs, bound) ==
    \E from_list \in from_lists, to_list \in to_lists, conn_spec \in conn_specs :
        /\ Len(syn_dict) = 1
        /\ TotalSyns(Net) < bound
        /\ \E o \in connect(Net, from_list, to_list, conn_spec, syn_dict[1]) :
            /\ TotalSyns(o.net) <= bound
            /\ Called(o, "connect")
            /\ syn_dict' = <<o.syn_spec>>

\* set_function is a method of the source units only
SetFunction(functions) ==
    \E uid \in 0..(Len(units) - 1), function \in functions :
        /\ units[uid + 1].type = "source"
        /\ Wired(Outcome(set_function(Net, uid, function), Ok), "set_function")

\* No buffer has run further ahead than the ticks the model allows
InHorizon(N) ==
    /\ \A i \in 1..Len(N.units) :
          N.units[i].type # "source" =>
              N.units[i].times[Len(N.units[i].times)] < MaxTicks * min_delay
    /\ \A i \in 1..Len(N.plants) :
          N.plants[i].times[Len(N.plants[i].times)] < MaxTicks * min_delay

Run(durations) ==
    \E total_time \in durations :
        /\ sim_time + Nsteps(total_time) * min_delay <= MaxTicks * min_delay
        /\ InHorizon(Net)
        /\ \E R \in {run(Net, total_time)} :
            /\ SetNet(R.net)
            /\ err' = R.err
            /\ op' = [name |-> "run", T |-> total_time]
            /\ log' = R.log
            /\ out_times' = R.times
            /\ UNCHANGED <<raised, syn_dict>>

\* network.__init__
Init ==
    /\ sim_time = 0
    /\ n_units = 0
    /\ units = <<>>
    /\ n_plants = 0
    /\ plants = <<>>
    /\ delays = <<>>
    /\ act = <<>>
    /\ syns = <<>>
    /\ err = Ok
    /\ op = [name |-> "network", T |-> 0]
    /\ raised = {}
    /\ log = <<>>
    /\ out_times = <<>>
    /\ syn_dict = <<>>

-----------------------------------------------------------------------------
(* The arguments the calls are made with *)

init_val == ValScale \div 2

\* `keys` holds the optional entries given, `listed` those given as a list
UnitParams(type, keys, function) ==
    [type |-> type, init_val |-> init_val, keys |-> keys, listed |-> {}, delay |-> 0,
     delay_list |-> <<>>, n_ports |-> MaxPorts, function |-> function]

\* The params of units whose 'delay' is a list with one delay per unit
ListedDelays(type, delay_list) ==
    [UnitParams(type, {"delay"}, 0) EXCEPT !.listed = {"delay"}, !.delay_list = delay_list]

PlantParams == [type |-> "conn_tester", init_state |-> <<init_val, 0, init_val>>]

ConnSpec(rule, delay) ==
    [rule |-> rule, allow_autapses |-> TRUE, degree |-> 1, delay |-> delay]

\* A conn_spec with its 'allow_autapses' and its 'outdegree' or 'indegree'
RuleSpec(rule, allow_autapses, degree) ==
    [rule |-> rule, allow_autapses |-> allow_autapses, degree |-> degree,
     delay |-> Scalar(min_delay)]

\* The forms of the 'inp_ports' entry of a syn_spec
NoPorts == [kind |-> "absent", value |-> 0, list |-> <<>>]

IntPort(port) == [kind |-> "int", value |-> port, list |-> <<>>]

PortList(ports) == [kind |-> "list", value |-> 0, list |-> ports]

\* A syn_spec dictionary as the caller builds it: `keys` holds the entries
\* among preID, postID, inp_port and plant_out that it has
PortSpec(type, w, inp_ports) ==
    [type |-> type, init_w |-> Scalar(w), inp_ports |-> inp_ports,
     keys |-> {}, preID |-> 0, postID |-> 0, inp_port |-> 0, plant_out |-> 0]

SynSpec(type, w) == PortSpec(type, w, NoPorts)

\* A syn_spec whose 'init_w' names the uniform distribution
UniformSpec(type, low, high) ==
    [SynSpec(type, 0) EXCEPT !.init_w = Uniform(low, high)]

DelayList(d) == [kind |-> "list", list |-> <<d>>]

PlantInSpec(d) == [inp_ports |-> <<0>>, delays |-> DelayList(d)]

PlantOutSpec(d) == [port_map |-> <<<<0, 0>>>>, delays |-> DelayList(d)]

\* A conn_spec of set_plant_outputs with one (output, port) tuple
PlantPortSpec(d, output, port) ==
    [port_map |-> <<<<output, port>>>>, delays |-> DelayList(d)]

-----------------------------------------------------------------------------
(* Specification: wiring units and a plant with static synapses, with scalar
   and uniform delays, and running *)

Next ==
    \/ CreateUnits({2}, {UnitParams("linear", {}, 0)})
    \/ CreatePlant({PlantParams})
    \/ Connect({<<1>>}, {<<0>>},
               {ConnSpec("one_to_one", Scalar(min_delay + HalfDelay)),
                ConnSpec("all_to_all", Uniform(0, min_delay + HalfDelay))},
               {SynSpec("static", 2)}, MaxWire)
    \/ SetPlantInputs({<<0>>}, {PlantInSpec(min_delay)}, {SynSpec("static", 2)})
    \/ SetPlantOutputs({<<1>>}, {PlantOutSpec(min_delay), PlantOutSpec(HalfDelay)},
                       {SynSpec("static", 2)})
    \/ Run({HalfDelay, min_delay})

Spec == Init /\ [][Next]_vars

(* Specification: synapse and unit classes that declare requirements *)

NextReq ==
    \/ CreateUnits({2}, {UnitParams("linear", {}, 0),
                         UnitParams("exp_dist_sigmoidal", {"tau_fast"}, 0)})
    \/ Connect({<<1>>}, {<<0>>},
               {ConnSpec("one_to_one", Scalar(min_delay))},
               {SynSpec("exp_rate_dist", 2), SynSpec("scaled", 2)}, MaxWire)
    \/ Run({min_delay})

SpecReq == Init /\ [][NextReq]_vars

(* Specification: units of a class that declares requirements, one of them
   with a buffer lengthened by a connection it sends and with excitatory and
   inhibitory connections arriving in several connect calls, and running *)

NextOrder ==
    \/ CreateUnits({2}, {UnitParams("exp_dist_sigmoidal", {"tau_fast"}, 0)})
    \/ Connect({<<0>>}, {<<1>>},
               {ConnSpec("one_to_one", Scalar(2 * min_delay))},
               {SynSpec("static", 2)}, MaxSyn)
    \/ Connect({<<1>>}, {<<0>>},
               {ConnSpec("one_to_one", Scalar(min_delay))},
               {SynSpec("static", 2), SynSpec("static", 0 - 2)}, MaxSyn)
    \/ Run({min_delay})

SpecOrder == Init /\ [][NextOrder]_vars

(* Specification: plastic synapses between two linear units that filter
   their activity, wired in several connect calls, and running *)

NextLearn ==
    \/ CreateUnits({2}, {UnitParams("linear", {"tau_fast"}, 0)})
    \/ CreatePlant({PlantParams})
    \/ Connect({<<1>>}, {<<0>>, <<1>>},
               {ConnSpec("all_to_all", Scalar(min_delay))},
               {SynSpec("hebbsnorm", 2)}, MaxSyn)
    \/ Connect({<<0>>, <<1>>}, {<<0>>},
               {ConnSpec("all_to_all", Scalar(2 * min_delay))},
               {SynSpec("static", 2)}, MaxSyn)
    \/ Run({min_delay, 2 * min_delay})

SpecLearn == Init /\ [][NextLearn]_vars

(* Specification: the connection rules, with lists that hold IDs out of range
   and lists of different lengths *)

NextRules ==
    \/ CreateUnits({1, 2, 3}, {UnitParams("linear", {}, 0)})
    \/ Connect({<<0, 1>>}, {<<0, 1, 2>>},
               {RuleSpec("fixed_outdegree", FALSE, 1), RuleSpec("fixed_outdegree", FALSE, 2),
                RuleSpec("fixed_indegree", FALSE, 1), RuleSpec("all_to_all", FALSE, 1)},
               {SynSpec("static", 2)}, MaxSyn)
    \/ Connect({<<0, 1>>, <<0, 3>>, <<0 - 1, 0>>}, {<<2>>, <<1, 3>>, <<1, 2>>},
               {RuleSpec("one_to_one", TRUE, 1)},
               {SynSpec("static", 2)}, MaxSyn)
    \/ Run({min_delay})

SpecRules == Init /\ [][NextRules]_vars

(* Specification: connections with delays shorter than and equal to
   min_delay, drawn up to it, and between one and two steps long, and
   running *)

NextDelays ==
    \/ CreateUnits({2}, {UnitParams("linear", {}, 0)})
    \/ Connect({<<1>>, <<0, 1>>}, {<<0>>},
               {ConnSpec("all_to_all", Scalar(HalfDelay)),
                ConnSpec("all_to_all", Scalar(min_delay)),
                ConnSpec("all_to_all", Scalar(min_delay + (2 * min_delay) \div 3)),
                ConnSpec("all_to_all", Uniform(0, HalfDelay))},
               {SynSpec("static", 2)}, MaxSyn)
    \/ Run({min_delay})

SpecDelays == Init /\ [][NextDelays]_vars

(* Specification: source units that feed linear units and a plant, their
   functions set before and after the wiring and between runs *)

NextSource ==
    \/ CreateUnits({1}, {UnitParams("source", {}, 0), UnitParams("linear", {}, 0)})
    \/ CreatePlant({PlantParams})
    \/ Connect({<<0>>, <<0, 1>>}, {<<2>>},
               {ConnSpec("all_to_all", Scalar(min_delay))},
               {SynSpec("static", 2)}, MaxWire)
    \/ SetPlantInputs({<<0>>}, {PlantInSpec(min_delay)}, {SynSpec("static", 2)})
    \/ SetPlantOutputs({<<2>>}, {PlantOutSpec(min_delay)}, {SynSpec("static", 2)})
    \/ SetFunction({1, 2})
    \/ Run({min_delay})

SpecSource == Init /\ [][NextSource]_vars

-----------------------------------------------------------------------------
(* Specification: units with several input ports, wired from units and from
   a plant with the input ports given, and running *)

NextPorts ==
    \/ CreateUnits({2}, {UnitParams("mp_linear", {"n_ports"}, 0)})
    \/ CreatePlant({PlantParams})
    \/ Connect({<<0>>, <<0, 1>>}, {<<1>>}, {ConnSpec("all_to_all", Scalar(min_delay))},
               {PortSpec("static", 2, IntPort(0)), PortSpec("static", 2, IntPort(1)),
                PortSpec("static", 2, PortList(<<0, 1>>))}, MaxSyn)
    \/ SetPlantOutputs({<<0>>, <<1>>},
                       {PlantPortSpec(min_delay, 0, 0), PlantPortSpec(min_delay, 1, 1)},
                       {SynSpec("static", 2)})
    \/ Run({min_delay})

SpecPorts == Init /\ [][NextPorts]_vars

-----------------------------------------------------------------------------
(* Specification: a caller that builds a syn_spec dictionary once and wires
   with it more than once *)

NextKept ==
    \/ CreateUnits({2}, {UnitParams("linear", {}, 0)})
    \/ MakeSynSpec({SynSpec("static", 2), UniformSpec("static", 1, 2)})
    \/ ConnectKept({<<0>>, <<0, 1>>}, {<<1>>},
                   {ConnSpec("all_to_all", Scalar(min_delay))}, MaxSyn)
    \/ Run({min_delay})

SpecKept == Init /\ [][NextKept]_vars

-----------------------------------------------------------------------------
(* Specification: units created with one delay each, wired from units and
   from a plant, and running.  The tables of the model are indexed by the
   place of a unit in net.units, which is its ID as long as every creation
   ran through: connect is followed up to a creation that broke off. *)

NextCreate ==
    \/ CreateUnits({1, 2}, {UnitParams("linear", {}, 0),
                            ListedDelays("linear", <<2 * min_delay, 3 * min_delay>>),
                            ListedDelays("linear", <<2 * min_delay, min_delay + HalfDelay>>)})
    \/ CreatePlant({PlantParams})
    \/ (Len(units) = n_units
          /\ Connect({<<0>>}, {<<1>>}, {ConnSpec("all_to_all", Scalar(min_delay))},
                     {SynSpec("static", 2)}, MaxWire))
    \/ (Len(units) = n_units
          /\ SetPlantOutputs({<<1>>}, {PlantOutSpec(min_delay)}, {SynSpec("static", 2)}))
    \/ Run({min_delay})

SpecCreate == Init /\ [][NextCreate]_vars

-----------------------------------------------------------------------------
(* Claims about wiring, delays and consecutive runs, under Spec *)

WiringOps == {"create_units", "create_plant", "connect", "set_plant_inputs",
              "set_plant_outputs"}

\* C2: a wiring operation attempted once run has advanced sim_time above 0
\* fails with an error.
C2_WiringAfterRunFails ==
    (sim_time > 0 /\ op.name \in WiringOps) => err # Ok

\* The exception of units.py line 462, which ends every connect and every
\* set_plant_outputs that made a connection, after the tables were written
\* and the first connected unit was resolved
Unrelated == {"NameError:multi_port"}

IsStep(d) == d >= min_delay /\ d % min_delay = 0

\* C3: every stored connection delay (each entry of net.delays and of a
\* plant's inp_dels) is k * min_delay for an integer k >= 1.  Stated for the
\* states reached by wiring calls that were stopped by nothing but the
\* exception of line 462, which comes after the delay has been stored.
C3_DelaysAreSteps ==
    raised \subseteq Unrelated =>
        /\ \A i \in 1..Len(delays) : \A j \in 1..Len(delays[i]) : IsStep(delays[i][j])
        /\ \A p \in 1..Len(plants) :
              \A port \in 1..Len(plants[p].inp_dels) :
                  \A j \in 1..Len(plants[p].inp_dels[port]) :
                      IsStep(plants[p].inp_dels[port][j])

\* run(T1) then run(T2), against run(T1 + T2), from the current state; the
\* comparison is made when run(T1) ends without error
RunSplit(T1, T2) ==
    With(run(Net, T1),
         LAMBDA a : a.err = Ok =>
            With(run(a.net, T2),
                 LAMBDA b : With(run(Net, T1 + T2),
                                 LAMBDA c : b.net = c.net /\ b.err = c.err)))

BufferDelays == {k * min_delay : k \in 1..3}

SampleTimes(d) == {0 - d, 1 - d, 0 - (d \div 2), 0 - HalfDelay, 0 - 1, 0}

-----------------------------------------------------------------------------
(* Claims about requirements, under SpecReq *)

\* C5: the syn_needs of every unit holds the prerequisites of every
\* requirement in it: inp_vector with lpf_mid_inp_sum or balance, and balance
\* with exp_scale or slide_thresh; also after a connect call raised.
C5_NeedsClosed ==
    \A i \in 1..Len(units) :
        LET needs == units[i].syn_needs
        IN  /\ needs \cap {"lpf_mid_inp_sum", "balance"} # {} => "inp_vector" \in needs
            /\ needs \cap {"exp_scale", "slide_thresh"} # {} => "balance" \in needs

\* The exceptions of an updater or a synapse that reads state no wiring call
\* has set up, and those by which init_pre_syn_update rejects a requirement
MissingState ==
    {"AttributeError:lpf_fast_buff", "AttributeError:lpf_mid_buff",
     "AttributeError:lpf_mid_inp_sum_buff", "AttributeError:inp_vector",
     "AttributeError:exp_scale", "AttributeError:thresh", "AttributeError:scale_facs",
     "AttributeError:delay_steps", "AttributeError:inp_avg", "AttributeError:below"}

Rejections ==
    {"AssertionError:inp_vector", "AssertionError:balance",
     "NameError:tau_fast", "NameError:tau_mid"}

\* C6: when a unit has been given exp_scale without the balance or the
\* lpf_fast that upd_exp_scale reads, a connect call has rejected the
\* requirement; the failure does not first appear as a run that raises.
C6_RejectedAtWiring ==
    ( /\ op.name = "run"
      /\ err \in MissingState
      /\ \E i \in 1..Len(units) :
            /\ "exp_scale" \in units[i].syn_needs
            /\ ~({"balance", "lpf_fast"} \subseteq units[i].syn_needs) )
        => raised \cap Rejections # {}

\* C7: after create and connect calls that all returned without error, run
\* raises no error for wiring-time state that is missing.
C7_RunFindsItsState ==
    (op.name = "run" /\ raised = {}) => err \notin MissingState

-----------------------------------------------------------------------------
(* Claims about the tick of network.run, under SpecLearn *)

UnitIDs == {k - 1 : k \in 1..Len(units)}

\* C1: the state after a tick (buffers, requirement values and their
\* histories, weights) is the same for every order in which the tick takes the
\* units.  Stated for the tick that starts in the current state and completes
\* under both orders.
C1_OrderIndependent ==
    \A order \in Perms(UnitIDs) :
        (Tick(Net, order).err = Ok /\ Tick(Net, ListOrder(Net)).err = Ok)
            => Tick(Net, order).net = Tick(Net, ListOrder(Net)).net

\* The place of a step in the tick of one entity
Phase(ev) ==
    CASE ev \in {"sample", "sample_plant"} -> 0
      [] ev \in {"integrate", "integrate_plant"} -> 1
      [] ev = "refresh" -> 2
      [] OTHER -> 3

SameEntity(a, b) ==
    a.id = b.id /\ (a.ev \in {"sample_plant", "integrate_plant"})
                     = (b.ev \in {"sample_plant", "integrate_plant"})

\* The ticks of the last run that ran to their end
Completed == {t \in 1..Len(log) : t < Len(log) \/ err = Ok}

C10_BuffersEndAtSimTime ==
    (op.name = "run" /\ err = Ok /\ Len(log) > 0) =>
        /\ \A id \in UnitIDs :
              units[id + 1].type # "source" =>
                  units[id + 1].times[Len(units[id + 1].times)] = sim_time
        /\ \A pid \in 1..Len(plants) :
              plants[pid].times[Len(plants[pid].times)] = sim_time

-----------------------------------------------------------------------------
(* Claims about the connection rules, under SpecRules *)

\* The lists of at most two IDs taken from -1 .. n_units
IdLists == UNION {[1..n -> (0 - 1)..n_units] : n \in 0..2}

OutOfRange(list) == \E k \in 1..Len(list) : list[k] < 0 \/ list[k] >= n_units

Rules == {"fixed_outdegree", "fixed_indegree", "all_to_all", "one_to_one"}

RejectsID(from_list, to_list) ==
    \A rule \in Rules, allow_autapses \in BOOLEAN :
        {Outcome(o.net, o.err) :
            o \in connect(Net, from_list, to_list, RuleSpec(rule, allow_autapses, 1),
                          SynSpec("static", 2))}
            = {Outcome(Net, "ValueError:ID")}

\* C12: connect with an ID in from_list or to_list that is negative or not
\* smaller than the number of units raises the error of the ID test and leaves
\* the network as it was, for every connection rule; also when the other list
\* is empty.
C12_BadIdRaises ==
    /\ \A list \in IdLists :
          OutOfRange(list) => RejectsID(list, <<>>) /\ RejectsID(<<>>, list)
    /\ \A from_list, to_list \in IdLists :
          (OutOfRange(from_list) \/ OutOfRange(to_list)) => RejectsID(from_list, to_list)

\* A connect call in a network of three units, one of its lists holding an
\* ID out of range, has raised
C12_Witness ==
    /\ op.name = "connect"
    /\ n_units = 3
    /\ err = "ValueError:ID"

RejectsLengths(from_list, to_list) ==
    \A allow_autapses \in BOOLEAN :
        \A o \in connect(Net, from_list, to_list, RuleSpec("one_to_one", allow_autapses, 1),
                         SynSpec("static", 2)) :
            /\ o.err \in {"ValueError:one_to_one", "ValueError:ID"}
            /\ o.net = Net

\* C14: connect with the rule one_to_one and lists of different lengths raises
\* an error (that of the rule, or that of the ID test which comes first) and
\* leaves the network as it was; also when one of the lists is empty.
C14_OneToOneLengths ==
    /\ \A list \in IdLists \ {<<>>} : RejectsLengths(<<>>, list) /\ RejectsLengths(list, <<>>)
    /\ \A from_list, to_list \in IdLists :
          Len(from_list) # Len(to_list) => RejectsLengths(from_list, to_list)

\* A one_to_one connect call with lists of different lengths, all of whose
\* IDs are in range, has raised
C14_Witness ==
    /\ op.name = "connect"
    /\ n_units = 3
    /\ err = "ValueError:one_to_one"

\* The lists of at most n IDs of existing units, with and without repeats
UnitLists(n) == UNION {[1..k -> 0..(n_units - 1)] : k \in 0..n}

NoRepeats(list) == \A i, j \in 1..Len(list) : list[i] = list[j] => i = j

\* The connections from unit u to unit t that outcome o has added
Added(o, u, t) ==
    Cardinality({k \in (Len(syns[t + 1]) + 1)..Len(o.net.syns[t + 1]) :
                    o.net.syns[t + 1][k].preID = u})

\* What C13 says of the outcomes of a fixed_outdegree connect without
\* autapses that made its connections (no such call returns: each is ended by
\* the exception of units.py line 462, raised after the tables are written)
Outdegree(from_list, to_list, d) ==
    \A o \in connect(Net, from_list, to_list, RuleSpec("fixed_outdegree", FALSE, d),
                     SynSpec("static", 2)) :
        o.err \in {Ok} \cup Unrelated =>
            /\ \A u \in UnitIDs :
                  /\ SeqSum([k \in 1..n_units |-> Added(o, u, k - 1)])
                        = IF u \in Range(from_list) THEN d ELSE 0
                  /\ \A t \in UnitIDs :
                        /\ Added(o, u, t) <= 1
                        /\ Added(o, u, t) = 1 => t \in Range(to_list) /\ t # u
            /\ TotalSyns(o.net) = TotalSyns(Net) + Len(from_list) * d

\* C13 as claimed: for any from_list and to_list, a fixed_outdegree connect
\* without autapses gives every source exactly outdegree new connections, to
\* pairwise distinct targets from to_list other than itself,
\* len(from_list) * outdegree in all.
C13_OutdegreeAnyLists ==
    \A from_list \in UnitLists(2), to_list \in UnitLists(2), d \in 1..2 :
        Outdegree(from_list, to_list, d)

\* C13 as amended: the same for a from_list and a to_list in which no ID is
\* repeated.
C13_OutdegreeNoRepeats ==
    \A from_list \in UnitLists(2), to_list \in UnitLists(3), d \in 1..2 :
        (NoRepeats(from_list) /\ NoRepeats(to_list)) => Outdegree(from_list, to_list, d)

\* The connect call with from_list [0, 1], to_list [0, 1, 2] and outdegree 2
\* has made its four connections: two from each source, to the two other units
C13_Witness ==
    /\ op.name = "connect"
    /\ err \in Unrelated
    /\ TotalSyns(Net) = 4
    /\ \A u \in {0, 1} : \A t \in UnitIDs \ {u} :
          Cardinality({k \in 1..Len(syns[t + 1]) : syns[t + 1][k].preID = u}) = 1
    /\ Len(syns[3]) = 2

-----------------------------------------------------------------------------
(* Claims about the functions of source units, under SpecSource *)

\* The accessor that stands for the current function of source unit uid
CurrentFunction(uid) == [kind |-> "fun", id |-> uid, f |-> units[uid + 1].function]

\* The times an accessor is called at in the checks
CallTimes == {0, HalfDelay, min_delay, min_delay + HalfDelay}

\* C16: for every source unit, whenever set_function was called for it
\* (before or after the wiring, before or between runs), the accessor of
\* every connection that comes from the unit, in net.act and in the inputs
\* of a plant, is the unit's current function, and calling the accessor as a
\* run does gives the value of that function.
C16_AccessorsAreTheFunction ==
    \A uid \in 0..(Len(units) - 1) :
        units[uid + 1].type = "source" =>
            /\ \A i \in 1..Len(syns) : \A j \in 1..Len(syns[i]) :
                  (syns[i][j].preID = uid /\ syns[i][j].plant_out < 0) =>
                      /\ act[i][j] = CurrentFunction(uid)
                      /\ \A t \in CallTimes :
                            ActVal(Net, act[i][j], t) = SourceFun(units[uid + 1].function, t)
            /\ \A k \in 1..Len(plants) : \A port \in 1..Len(plants[k].inp_syns) :
                  \A idx \in 1..Len(plants[k].inp_syns[port]) :
                      plants[k].inp_syns[port][idx].preID = uid =>
                          /\ plants[k].inputs[port][idx] = CurrentFunction(uid)
                          /\ \A t \in CallTimes :
                                ActVal(Net, plants[k].inputs[port][idx], t)
                                    = SourceFun(units[uid + 1].function, t)

\* set_function has just given source unit 0 a new function, after the
\* wiring and after a run: the unit feeds unit 2 and the plant
C16_Witness ==
    /\ op.name = "set_function"
    /\ sim_time = min_delay
    /\ Len(units) = 3 /\ Len(plants) = 1
    /\ units[1].type = "source" /\ units[1].function = 2
    /\ \E j \in 1..Len(syns[3]) : syns[3][j].preID = 0 /\ act[3][j].f = 2
    /\ Len(plants[1].inputs[1]) = 1 /\ plants[1].inputs[1][1].f = 2

-----------------------------------------------------------------------------
(* Claims about the times the inputs are read at, under SpecDelays *)

\* The times unit.get_input_sum calls the accessor of a connection with
\* delay d at, while the tick that starts at sim_time is integrated over
\* new_times
ReadTimes(d) == {sim_time + times_grid[k] - d : k \in 1..Len(times_grid)}

\* C17: in the tick that starts at sim_time, every time at which a unit reads
\* the activation history of another unit while integrating is not later
\* than sim_time, for every connection that connect has accepted.
C17_ReadsCommittedHistory ==
    raised \subseteq Unrelated =>
        \A i \in 1..Len(act) : \A j \in 1..Len(act[i]) :
            act[i][j].kind = "unit" =>
                \A t \in ReadTimes(delays[i][j]) : t <= sim_time

-----------------------------------------------------------------------------
(* Claims about the refresh operation of a unit, under SpecOrder *)

\* <<reader, read>>: the updater `reader` uses the value the updater `read`
\* maintains (inp_vector in upd_balance and upd_lpf_mid_inp_sum; below, above
\* and lpf_fast in upd_exp_scale)
Reads ==
    {<<"upd_balance", "upd_inp_vector">>, <<"upd_lpf_mid_inp_sum", "upd_inp_vector">>,
     <<"upd_exp_scale", "upd_balance">>, <<"upd_exp_scale", "upd_lpf_fast">>}

\* The places of an updater in the order pre_syn_update calls functions in
Places(u, name) == {k \in 1..Len(u.functions) : u.functions[k] = name}

\* Every active requirement of u has its updater called exactly once
CalledOnce(u) ==
    /\ \A r \in u.syn_needs : Cardinality(Places(u, UpdaterOf(r))) = 1
    /\ \A k \in 1..Len(u.functions) : \E r \in u.syn_needs : UpdaterOf(r) = u.functions[k]

\* The pairs of Reads whose second member init_pre_syn_update requires when
\* it registers the first
Enforced == Reads \ {<<"upd_exp_scale", "upd_lpf_fast">>}

-----------------------------------------------------------------------------
(* Claims about the resolution of requirements, under SpecLearn *)

\* The requirement a unit keeps for a synapse it sends that declares r
SenderKeeps(r) ==
    CASE r \in {"pre_lpf_fast", "inp_avg"} -> {"lpf_fast"}
      [] r = "pre_lpf_mid" -> {"lpf_mid"}
      [] r = "pre_lpf_slow" -> {"lpf_slow"}
      [] OTHER -> {}

\* C19: once connect is over, every unit that a synapse comes from has in
\* its active requirement set lpf_fast if the synapse declares pre_lpf_fast or
\* inp_avg, lpf_mid if it declares pre_lpf_mid and lpf_slow if it declares
\* pre_lpf_slow, whether or not a synapse arriving at the unit asks for them.
C19_SendersKeepFilters ==
    raised \subseteq Unrelated =>
        \A i \in 1..Len(syns) : \A j \in 1..Len(syns[i]) :
            syns[i][j].plant_out < 0 =>
                \A r \in upd_requirements(syns[i][j].type) :
                    SenderKeeps(r) \subseteq units[syns[i][j].preID + 1].syn_needs

\* The requirements of u that a resolution has made active
Active(u) == {r \in u.syn_needs : Places(u, UpdaterOf(r)) # {}}

\* What unit u stores for requirement r: the value and, where one is kept,
\* the history; of the vectors that have one entry for each connection, the
\* entries that unit `was` has
Stored(u, r, was) ==
    CASE r = "lpf_fast" -> <<u.lpf_fast, u.lpf_fast_buff>>
      [] r = "lpf_mid" -> <<u.lpf_mid, u.lpf_mid_buff>>
      [] r = "lpf_mid_inp_sum" -> <<u.lpf_mid_inp_sum, u.lpf_mid_inp_sum_buff>>
      [] r = "inp_vector" -> SubSeq(u.inp_vector, 1, Min(Len(was.inp_vector), Len(u.inp_vector)))
      [] r = "inp_avg" -> <<u.inp_avg>>
      [] r = "balance" -> <<u.below, u.above>>
      [] r = "exp_scale" -> SubSeq(u.scale_facs, 1, Min(Len(was.scale_facs), Len(u.scale_facs)))
      [] OTHER -> <<>>

\* C20: init_pre_syn_update run again on a unit keeps every requirement that
\* was active active, with its updater registered exactly once, and leaves
\* what the unit stores for it (value and history) as it was.
C20_ResolutionKeepsState ==
    \A uid \in 0..(Len(units) - 1) :
        \A o \in init_pre_syn_update(Net, uid) :
            \A r \in Active(units[uid + 1]) :
                /\ r \in Active(o.net.units[uid + 1])
                /\ Cardinality(Places(o.net.units[uid + 1], UpdaterOf(r))) = 1
                /\ Stored(o.net.units[uid + 1], r, units[uid + 1])
                     = Stored(units[uid + 1], r, units[uid + 1])

-----------------------------------------------------------------------------
(* Claims about the buffers, under SpecDelays, Spec and SpecLearn *)

\* The timestamps of the entity an accessor reads: of the unit for a bound
\* get_act, of the plant for a plant output, none for a source function
TimesOf(e) ==
    CASE e.kind = "unit" -> units[e.id + 1].times
      [] e.kind = "plant_fun" -> plants[e.id + 1].times
      [] OTHER -> <<>>

\* The buffer behind accessor e holds the time sim_time - d and ends at sim_time
Covers(e, d) ==
    TimesOf(e) # <<>> =>
        /\ TimesOf(e)[1] <= sim_time - d
        /\ TimesOf(e)[Len(TimesOf(e))] = sim_time

\* C21: at the tick boundary a run ends on, for every connection with delay
\* d that comes from a buffered unit or from a plant, the timestamps of the
\* source begin at or before sim_time - d and end at sim_time.
C21_BufferCoversDelay ==
    (op.name = "run" /\ err = Ok /\ Len(log) > 0 /\ raised \subseteq Unrelated) =>
        /\ \A i \in 1..Len(act) : \A j \in 1..Len(act[i]) :
              Covers(act[i][j], delays[i][j])
        /\ \A k \in 1..Len(plants) : \A port \in 1..Len(plants[k].inputs) :
              \A idx \in 1..Min(Len(plants[k].inputs[port]), Len(plants[k].inp_dels[port])) :
                  Covers(plants[k].inputs[port][idx], plants[k].inp_dels[port][idx])

\* The length the buffers of an entity with this delay are laid out with
LengthFor(delay) == PyRound(delay, min_delay) * min_buff_size

\* C22: after every call, the buffer and the timestamps of every buffered
\* unit and of every plant have the length round(delay/min_delay) *
\* min_buff_size of the entity's current delay.
C22_LengthFollowsDelay ==
    /\ \A i \in 1..Len(units) :
          units[i].type # "source" =>
              /\ Len(units[i].buffer) = LengthFor(units[i].delay)
              /\ Len(units[i].times) = LengthFor(units[i].delay)
    /\ \A k \in 1..Len(plants) :
          /\ Len(plants[k].buffer) = LengthFor(plants[k].delay)
          /\ Len(plants[k].times) = LengthFor(plants[k].delay)

\* C23: between calls, the timestamps of every buffered unit are equally
\* spaced, and the spacing is the time-bit width the lookup of get_act
\* divides by (the model's time_bit leaves out the padding of 1e-9).
C23_TimesEquallySpaced ==
    \A i \in 1..Len(units) :
        units[i].type # "source" =>
            \A k \in 1..(Len(units[i].times) - 1) :
                units[i].times[k + 1] - units[i].times[k] = units[i].time_bit

\* Every entry of `new` below the last min_buff_size is the entry of `old`
\* min_buff_size places later
Shifted(old, new) ==
    /\ Len(new) = Len(old)
    /\ \A k \in 1..(Len(old) - min_buff_size) : new[k] = old[k + min_buff_size]

\* The last min_buff_size timestamps lie in (t, t + min_delay]
Appended(times, t) ==
    \A k \in (Len(times) - min_buff_size + 1)..Len(times) :
        t < times[k] /\ times[k] <= t + min_delay

\* C24: a tick that runs to its end moves every entry of the buffer and of
\* the timestamps of each buffered unit and each plant min_buff_size places
\* down, dropping the oldest min_buff_size entries, and the last
\* min_buff_size timestamps lie in (sim_time, sim_time + min_delay].
C24_UpdateShiftsBuffer ==
    [][(sim_time' = sim_time + min_delay /\ err' = Ok) =>
          /\ \A i \in 1..Len(units) :
                units[i].type # "source" =>
                    /\ Shifted(units[i].buffer, units'[i].buffer)
                    /\ Shifted(units[i].times, units'[i].times)
                    /\ Appended(units'[i].times, sim_time)
          /\ \A k \in 1..Len(plants) :
                /\ Shifted(plants[k].buffer, plants'[k].buffer)
                /\ Shifted(plants[k].times, plants'[k].times)
                /\ Appended(plants'[k].times, sim_time)]_vars

-----------------------------------------------------------------------------
(* Claims about the input ports, under SpecPorts *)

\* The places in the incoming tables of unit i whose synapse has input port p
PortPlaces(i, p) == {j \in 1..Len(syns[i]) : syns[i][j].inp_port = p}

\* C25: once a multi-port unit has incoming connections, it has a port_idx
\* with one entry per input port, and entry p lists exactly the places (from
\* 0) of the unit's incoming connections whose input port is p, each once.
C25_PortIdxListsPorts ==
    \A i \in 1..Len(units) :
        (units[i].multi_port /\ Len(syns[i]) > 0) =>
            /\ "port_idx" \in units[i].has
            /\ Len(units[i].port_idx) = units[i].n_ports
            /\ \A p \in 1..Len(units[i].port_idx) :
                  /\ Range(units[i].port_idx[p]) = {j - 1 : j \in PortPlaces(i, p - 1)}
                  /\ Len(units[i].port_idx[p]) = Cardinality(PortPlaces(i, p - 1))

-----------------------------------------------------------------------------
(* Claims about the dictionaries of the caller, under SpecKept *)

\* C28: a connect call leaves the syn_spec dictionary it was given as it was,
\* and so never finds in it a weight entry it refuses.
C28_SynSpecUntouched ==
    [][op'.name = "connect" =>
          /\ syn_dict' = syn_dict
          /\ err' # "TypeError:init_w"]_vars

-----------------------------------------------------------------------------
(* Claims about the calls that raise, under Spec *)

\* C26: a connect call that raises (the exception of units.py line 462
\* apart) leaves net.delays, net.act, net.syns and the delay, the buffer,
\* the timestamps and the requirement set of every unit as they were.
C26_FailedConnectChangesNothing ==
    [][(op'.name = "connect" /\ err' \notin ({Ok} \cup Unrelated)) =>
          /\ delays' = delays
          /\ act' = act
          /\ syns' = syns
          /\ Len(units') = Len(units)
          /\ \A i \in 1..Len(units) :
                /\ units'[i].delay = units[i].delay
                /\ units'[i].buffer = units[i].buffer
                /\ units'[i].times = units[i].times
                /\ units'[i].syn_needs = units[i].syn_needs]_vars

-----------------------------------------------------------------------------
(* Claims about the tables of the network, under SpecCreate *)

\* The accessor e reads the sender of synapse syn
Describes(e, syn) ==
    /\ e.id = syn.preID
    /\ (e.kind \in {"plant_fun", "plant_var"}) = (syn.plant_out >= 0)

\* C27: after every call, net.units, net.delays, net.act and net.syns have
\* n_units entries each, the unit at place i has ID i, and the three
\* incoming tables of a unit have one length, their j-th entries being the
\* synapse onto this unit, its delay and the accessor of its sender.
C27_TablesAligned ==
    /\ Len(units) = n_units
    /\ Len(delays) = n_units /\ Len(act) = n_units /\ Len(syns) = n_units
    /\ \A i \in 1..Len(units) : units[i].ID = i - 1
    /\ \A i \in 1..Len(syns) :
          /\ Len(delays[i]) = Len(syns[i])
          /\ Len(act[i]) = Len(syns[i])
          /\ \A j \in 1..Len(syns[i]) :
                /\ syns[i][j].postID = i - 1
                /\ Describes(act[i][j], syns[i][j])

-----------------------------------------------------------------------------
(* Claims about set_function and the outputs of a plant, under SpecSource *)

\* C29: a set_function call leaves the accessor of every connection that
\* comes from a plant as it was, whatever the ID of the plant.
C29_PlantAccessorsKept ==
    [][op'.name = "set_function" =>
          \A i \in 1..Len(syns) : \A j \in 1..Len(syns[i]) :
              syns[i][j].plant_out >= 0 => act'[i][j] = act[i][j]]_vars

-----------------------------------------------------------------------------
(* Claims about the time of the last update, under SpecLearn *)

\* C30: a run call that returns leaves every unit with last_time equal to
\* the start of its last tick; no call advances last_time beyond sim_time,
\* and no updater finds its time argument behind last_time.
C30_LastTimeBehindSimTime ==
    /\ (op.name = "run" /\ err = Ok /\ Len(log) > 0) =>
          \A i \in 1..Len(units) : units[i].last_time = sim_time - min_delay
    /\ \A i \in 1..Len(units) : units[i].last_time <= sim_time
    /\ err # "AssertionError:backwards"

C30_Witness ==
    /\ op.name = "run" /\ err = Ok /\ sim_time = 2 * min_delay
    /\ \E i \in 1..Len(units) :
          /\ "upd_lpf_fast" \in Range(units[i].functions)
          /\ units[i].last_time = min_delay

====
